---- MODULE Spec2Model ----
(***************************************************************************)
(* Model of the HarmonyDocsScraper (src/src/scraper.js, src/src/index.js). *)
(*                                                                         *)
(* Four specifications share this module:                                  *)
(*   SpecTree - extractLinks: the rows of the rendered navigation tree,    *)
(*              buildTree record by record, the root wrapper, the          *)
(*              multi-root wrapper, and flattenTree on the result.         *)
(*   Spec     - one invocation of scrapeAll: the stages extract, scrape,   *)
(*              index and all against the file system and the browser.     *)
(*   SpecWait - waitForDirectoryTree against a page that answers as it     *)
(*              likes; FairSpecWait adds that the function keeps running.  *)
(*   SpecPath - urlToFilePath, statement by statement, on one URL.         *)
(*                                                                         *)
(* JavaScript values are modelled as follows.  A URL is its canonical      *)
(* string; null is NoUrl.  A pathname is the sequence of its characters;   *)
(* null/undefined is the empty sequence.  An optional number (a row's      *)
(* level, undefined on a link record) is <<n>> or <<>>.  Objects that      *)
(* buildTree links by reference live in a heap (a sequence of nodes whose  *)
(* children are heap addresses); what crosses page.evaluate or is written  *)
(* to links.json is the serialized, nested value.                          *)
(***************************************************************************)
EXTENDS Integers, Sequences, FiniteSets, TLC

VARIABLES
  \* extractLinks and buildTree (SpecTree)
  startUrl,    \* this.startUrl: the root URLs
  rootIdx,     \* position of the for-of loop over this.startUrl
  flatNodes,   \* the rows pushed for the root being evaluated
  bt,          \* buildTree's locals: heap of tree nodes, result, stack
  bi,          \* position of nodes.forEach in buildTree
  allTrees,    \* the trees of the roots evaluated so far
  tree,        \* what extractLinks returns; <<>> before
  allLinks,    \* flattenTree(tree) in the caller; <<>> before
  xpc,         \* where extractLinks is
  \* one invocation of scrapeAll (Spec)
  stage,         \* this.stage
  incremental,   \* this.incremental
  dryRun,        \* this.dryRun
  linksFile,     \* the content of links.json
  dirExists,     \* whether this.outputDir exists
  files,         \* the files below this.outputDir: path -> content
  browser,       \* this.browser: "null", "open" or "closed"
  visitedUrls,   \* this.visitedUrls
  failedUrls,    \* this.failedUrls
  successCount,  \* this.successCount
  skippedCount,  \* this.skippedCount
  data,          \* what loadLinks returned
  links,         \* the list the fetch loop runs over
  li,            \* the fetch loop's i, from 1
  pc,            \* where scrapeAll is
  pending,       \* how the try block ended: "none", "return" or "throw"
  thrown,        \* the message of the error that left the try block; "none"
  exitCode,      \* the process exit status; -1 while running
  events,        \* every file-system and browser operation so far, in order
  \* waitForDirectoryTree (SpecWait)
  loaded,          \* let loaded
  attempts,        \* let attempts
  found,           \* let found
  selIdx,          \* position of the for-of loop over fallbackSelectors
  hasMore,         \* let hasMore
  expandedCount,   \* what the last page.evaluate returned; -1 before
  totalExpanded,   \* let totalExpanded, counted up to MaxExpanded
  closeSwitchers,  \* the page: elements matching .ant-tree-switcher_close
  tried,           \* the selectors handed to waitForSelector, in order
  swallowed,       \* errors the empty catch blocks took, up to MaxSwallowed
  wpc,             \* where waitForDirectoryTree is
  \* urlToFilePath (SpecPath)
  urlObj,      \* new URL(url): whether it parsed, and its pathname
  filePath,    \* let filePath
  ppc          \* where urlToFilePath is

treeVars == <<startUrl, rootIdx, flatNodes, bt, bi, allTrees, tree, allLinks, xpc>>

runVars == <<stage, incremental, dryRun, linksFile, dirExists, files, browser,
             visitedUrls, failedUrls, successCount, skippedCount, data, links, li,
             pc, pending, thrown, exitCode, events>>

waitVars == <<loaded, attempts, found, selIdx, hasMore, expandedCount,
              totalExpanded, closeSwitchers, tried, swallowed, wpc>>

pathVars == <<urlObj, filePath, ppc>>

vars == <<treeVars, runVars, waitVars, pathVars>>

\* ------------------------------------------------------------------ bounds

\* Rows of navigation tree over all roots of one extraction.
MaxRows == 4
\* Deepest indentation level of a row.
MaxLevel == 2
\* Rows of navigation tree over all roots in one invocation of scrapeAll.
MaxRunRows == 2
\* Page fetches that throw in one invocation of scrapeAll.
MaxFaults == 2
\* Closed switchers the page shows at once.
MaxSwitchers == 2
\* Beyond this many expanded nodes totalExpanded is no longer counted.
MaxExpanded == 3
\* Beyond this many swallowed errors they are no longer counted.
MaxSwallowed == 2
\* Characters of a pathname between its leading slash and its extension.
MaxPathLen == 2

\* ------------------------------------------------------------ URLs, paths

NoUrl == "null"

RootA == "https://h/doc/r"
RootB == "https://h/doc/s"
UrlA  == "https://h/doc/a"
UrlB  == "https://h/doc/b"
\* Same file as UrlA: the path already ends with .html.
UrlAH == "https://h/doc/a.html"

NoPath == <<>>

\* new URL(url).pathname
Pathname(url) ==
  CASE url = RootA -> <<"/", "d", "o", "c", "/", "r">>
    [] url = RootB -> <<"/", "d", "o", "c", "/", "s">>
    [] url = UrlA  -> <<"/", "d", "o", "c", "/", "a">>
    [] url = UrlB  -> <<"/", "d", "o", "c", "/", "b">>
    [] url = UrlAH -> <<"/", "d", "o", "c", "/", "a", ".", "h", "t", "m", "l">>
    [] OTHER       -> NoPath

RowTitles == <<"t1", "t2", "t3", "t4", "t5", "t6", "t7", "t8">>

\* ------------------------------------------------------------ flattenTree

LinkOf(node) == [url |-> node.url, title |-> node.title, pathname |-> node.pathname]

RECURSIVE traverse(_)
RECURSIVE traverseChildren(_, _)

\* Mutant: children are visited before the node emits its own link.
traversePostOrder(node) ==
  traverseChildren(node.children, 1)
    \o (IF node.url # NoUrl THEN <<LinkOf(node)>> ELSE <<>>)

\* Mutant: the children of a node that carries a URL are not visited.
traverseLeafOnly(node) ==
  IF node.url # NoUrl THEN <<LinkOf(node)>> ELSE traverseChildren(node.children, 1)

\* traverse(node): links.push for a node with a url, then each child in order.
traverse(node) ==
  (IF node.url # NoUrl THEN <<LinkOf(node)>> ELSE <<>>)
    \o traverseChildren(node.children, 1)

\* node.children.forEach((child) => traverse(child)), from child k on.
traverseChildren(children, k) ==
  IF k > Len(children) THEN <<>>
  ELSE traverse(children[k]) \o traverseChildren(children, k + 1)

flattenTree(t) == traverse(t)

\* ------------------------------------------------------------- buildTree

\* node.level: <<n>>, or <<>> when the record has no level (undefined).
LevelOf(node) == IF "level" \in DOMAIN node THEN <<node.level>> ELSE <<>>

\* a >= b on optional numbers: a comparison with undefined is false.
JsGE(a, b) == a # <<>> /\ b # <<>> /\ a[1] >= b[1]

\* Mutant: only strictly deeper entries are popped (> for >=).
ShouldPopStrict(top, level) ==
  top.level # <<>> /\ level # <<>> /\ top.level[1] > level[1]

\* The condition of the while loop that pops the stack.
ShouldPop(top, level) == JsGE(top.level, level)

RECURSIVE PopStack(_, _)
\* while (stack.length > 0 && stack[stack.length - 1].level >= node.level) stack.pop()
PopStack(stack, level) ==
  IF Len(stack) > 0 /\ ShouldPop(stack[Len(stack)], level)
  THEN PopStack(SubSeq(stack, 1, Len(stack) - 1), level)
  ELSE stack

\* const treeNode = { title, url, pathname, children: [] }
NewTreeNode(node) ==
  [title |-> node.title, url |-> node.url, pathname |-> node.pathname, children |-> <<>>]

\* const result = []; const stack = [];
BuildTreeInit == [heap |-> <<>>, result |-> <<>>, stack |-> <<>>]

\* Mutant: a node whose parent is not the previous record is dropped.
AttachDropping(b, st, id) ==
  IF Len(st) = 0
  THEN [b EXCEPT !.result = Append(@, id)]
  ELSE IF st[Len(st)].node = id - 1
       THEN [b EXCEPT !.heap[st[Len(st)].node].children = Append(@, id)]
       ELSE b

\* result.push(treeNode) on an empty stack, else parent.children.push(treeNode).
Attach(b, st, id) ==
  IF Len(st) = 0
  THEN [b EXCEPT !.result = Append(@, id)]
  ELSE [b EXCEPT !.heap[st[Len(st)].node].children = Append(@, id)]

\* The body of nodes.forEach in buildTree, for one record.
BuildTreeStep(b, node) ==
  LET id == Len(b.heap) + 1
      st == PopStack(b.stack, LevelOf(node))
      b1 == [b EXCEPT !.heap = Append(@, NewTreeNode(node))]
      b2 == Attach(b1, st, id)
  IN  [b2 EXCEPT !.stack = Append(st, [node |-> id, level |-> LevelOf(node)])]

RECURSIVE BuildTreeFrom(_, _, _)
BuildTreeFrom(b, nodes, i) ==
  IF i > Len(nodes) THEN b
  ELSE BuildTreeFrom(BuildTreeStep(b, nodes[i]), nodes, i + 1)

\* buildTree(nodes): the build state after the last record.
buildTree(nodes) == BuildTreeFrom(BuildTreeInit, nodes, 1)

RECURSIVE Serialize(_, _)
\* The value of the heap node id as it is returned from page.evaluate.
Serialize(heap, id) ==
  [title    |-> heap[id].title,
   url      |-> heap[id].url,
   pathname |-> heap[id].pathname,
   children |-> [k \in 1..Len(heap[id].children) |-> Serialize(heap, heap[id].children[k])]]

\* The array buildTree returns.
SerializeForest(b) == [k \in 1..Len(b.result) |-> Serialize(b.heap, b.result[k])]

\* Mutant: the root node is a folder without a link of its own.
RootNodeWithoutUrl(baseUrl, children) ==
  [title |-> "root", url |-> NoUrl, pathname |-> NoPath, children |-> children]

\* { title: '根节点', url: baseUrl, pathname: new URL(baseUrl).pathname, children }
RootNode(baseUrl, children) ==
  [title |-> "root", url |-> baseUrl, pathname |-> Pathname(baseUrl), children |-> children]

\* allTrees.length === 1 ? allTrees[0] : { title: '多根节点', children: allTrees }
\* (the wrapper has no url and no pathname property: both read as undefined).
ComposeTrees(trees) ==
  IF Len(trees) = 1 THEN trees[1]
  ELSE [title |-> "multi-root", url |-> NoUrl, pathname |-> NoPath, children |-> trees]

RECURSIVE countLinks(_)
RECURSIVE countLinksFrom(_, _)
\* countLinks(node) of extractLinks.
countLinks(node) == (IF node.url # NoUrl THEN 1 ELSE 0) + countLinksFrom(node.children, 1)
countLinksFrom(children, k) ==
  IF k > Len(children) THEN 0
  ELSE countLinks(children[k]) + countLinksFrom(children, k + 1)

\* ----------------------------------------------- extractLinks, step by step

RowKinds == (0..MaxLevel) \X {NoUrl, UrlA}

\* One row as flatNodes.push(node) leaves it; its title is the row's number.
FlatNode(kind, n) ==
  [title    |-> RowTitles[n],
   url      |-> kind[2],
   pathname |-> Pathname(kind[2]),
   level    |-> kind[1],
   children |-> <<>>]

\* The row lists of length len whose first row is row number first + 1.
FlatSeqs(first, len) ==
  {[k \in 1..len |-> FlatNode(f[k], first + k)] : f \in [1..len -> RowKinds]}

\* The invocation's state while SpecTree looks at extractLinks alone.
RunIdle ==
  /\ stage = "extract"
  /\ incremental = FALSE
  /\ dryRun = FALSE
  /\ linksFile = [kind |-> "absent"]
  /\ dirExists = FALSE
  /\ files = <<>>
  /\ browser = "open"
  /\ visitedUrls = {}
  /\ failedUrls = <<>>
  /\ successCount = 0
  /\ skippedCount = 0
  /\ data = [form |-> "none"]
  /\ links = <<>>
  /\ li = 1
  /\ pc = "extractLinks"
  /\ pending = "none"
  /\ thrown = "none"
  /\ exitCode = -1
  /\ events = <<>>

\* const maxAttempts = 30, 193
maxAttempts == 30

\* const fallbackSelectors, 215
fallbackSelectors == <<".ant-tree", "[class*=tree]", "nav", ".sidebar">>

\* waitForDirectoryTree is not running
WaitIdle ==
  /\ wpc = "idle"
  /\ loaded = FALSE
  /\ attempts = 0
  /\ found = FALSE
  /\ selIdx = 1
  /\ tried = <<>>
  /\ swallowed = 0
  /\ hasMore = TRUE
  /\ expandedCount = -1
  /\ totalExpanded = 0
  /\ closeSwitchers = 0

\* urlToFilePath is not running
PathIdle ==
  /\ urlObj = [valid |-> FALSE, pathname |-> <<>>]
  /\ filePath = <<>>
  /\ ppc = "idle"

TreeInit ==
  /\ RunIdle
  /\ WaitIdle
  /\ PathIdle
  /\ startUrl \in {<<RootA>>, <<RootA, RootB>>}
  /\ rootIdx = 1
  /\ flatNodes = <<>>
  /\ bt = BuildTreeInit
  /\ bi = 1
  /\ allTrees = <<>>
  /\ tree = <<>>
  /\ allLinks = <<>>
  /\ xpc = "goto"

\* The number of nodes below the roots of the trees collected so far.
RECURSIVE NodeCount(_)
NodeCount(children) ==
  IF Len(children) = 0 THEN 0
  ELSE 1 + NodeCount(Head(children).children) + NodeCount(Tail(children))

\* page.goto(startUrl), waitForDirectoryTree, and the start of page.evaluate:
\* the document has no .ant-tree (the root alone is returned) ...
EvaluateNoTree ==
  /\ xpc = "goto"
  /\ allTrees' = Append(allTrees, RootNode(startUrl[rootIdx], <<>>))
  /\ rootIdx' = rootIdx + 1
  /\ xpc' = IF rootIdx < Len(startUrl) THEN "goto" ELSE "compose"
  /\ UNCHANGED <<startUrl, flatNodes, bt, bi, tree, allLinks>>
  /\ UNCHANGED <<runVars, waitVars, pathVars>>

\* ... or it has one, and allNodes.forEach pushes its rows onto flatNodes.
EvaluateRows ==
  /\ xpc = "goto"
  /\ LET used == NodeCount(allTrees) - Len(allTrees)
     IN  \E len \in 0..(MaxRows - used) :
           \E rows \in FlatSeqs(used, len) : flatNodes' = rows
  /\ bt' = BuildTreeInit
  /\ bi' = 1
  /\ xpc' = "forEach"
  /\ UNCHANGED <<startUrl, rootIdx, allTrees, tree, allLinks>>
  /\ UNCHANGED <<runVars, waitVars, pathVars>>

\* One iteration of nodes.forEach in buildTree.
BuildTreeIter ==
  /\ xpc = "forEach"
  /\ bi <= Len(flatNodes)
  /\ bt' = BuildTreeStep(bt, flatNodes[bi])
  /\ bi' = bi + 1
  /\ UNCHANGED <<startUrl, rootIdx, flatNodes, allTrees, tree, allLinks, xpc>>
  /\ UNCHANGED <<runVars, waitVars, pathVars>>

\* buildTree returns; the root node wraps its result; allTrees.push(tree).
ReturnTree ==
  /\ xpc = "forEach"
  /\ bi > Len(flatNodes)
  /\ allTrees' = Append(allTrees, RootNode(startUrl[rootIdx], SerializeForest(bt)))
  /\ rootIdx' = rootIdx + 1
  /\ xpc' = IF rootIdx < Len(startUrl) THEN "goto" ELSE "compose"
  /\ UNCHANGED <<startUrl, flatNodes, bt, bi, tree, allLinks>>
  /\ UNCHANGED <<runVars, waitVars, pathVars>>

\* const result = allTrees.length === 1 ? ... ; return result
ComposeResult ==
  /\ xpc = "compose"
  /\ tree' = ComposeTrees(allTrees)
  /\ xpc' = "flatten"
  /\ UNCHANGED <<startUrl, rootIdx, flatNodes, bt, bi, allTrees, allLinks>>
  /\ UNCHANGED <<runVars, waitVars, pathVars>>

\* const allLinks = this.flattenTree(tree) in the caller of extractLinks.
FlattenResult ==
  /\ xpc = "flatten"
  /\ allLinks' = flattenTree(tree)
  /\ xpc' = "done"
  /\ UNCHANGED <<startUrl, rootIdx, flatNodes, bt, bi, allTrees, tree>>
  /\ UNCHANGED <<runVars, waitVars, pathVars>>

TreeNext ==
  \/ EvaluateNoTree
  \/ EvaluateRows
  \/ BuildTreeIter
  \/ ReturnTree
  \/ ComposeResult
  \/ FlattenResult

SpecTree == TreeInit /\ [][TreeNext]_vars

\* ------------------------------------------------- waitForDirectoryTree
\* scraper.js 187-280, run once per root after page.goto.  The rendered
\* page is the environment: what a query returns, whether a selector
\* appears within its timeout and how many switchers are still closed after
\* a round of clicks are its choice.

WaitInit ==
  /\ RunIdle
  /\ startUrl = <<RootA>>
  /\ rootIdx = 1
  /\ flatNodes = <<>>
  /\ bt = BuildTreeInit
  /\ bi = 1
  /\ allTrees = <<>>
  /\ tree = <<>>
  /\ allLinks = <<>>
  /\ xpc = "wait"
  /\ PathIdle
  /\ wpc = "poll"
  /\ loaded = FALSE
  /\ attempts = 0
  /\ found = FALSE
  /\ selIdx = 1
  /\ tried = <<>>
  /\ swallowed = 0
  /\ hasMore = TRUE
  /\ expandedCount = -1
  /\ totalExpanded = 0
  /\ closeSwitchers = 0

\* while (!loaded && attempts < maxAttempts), 195
ShouldPollUntilLoaded == ~loaded

ShouldPoll == ~loaded /\ attempts < maxAttempts

\* 196-203 with nodes.length > 0: the loop ends, 210 takes the loaded branch
PollLoaded ==
  /\ wpc = "poll"
  /\ ShouldPoll
  /\ loaded' = TRUE
  /\ wpc' = "settle"
  /\ UNCHANGED <<attempts, found, selIdx, tried, swallowed, hasMore,
                 expandedCount, totalExpanded, closeSwitchers>>
  /\ UNCHANGED <<treeVars, runVars, pathVars>>

\* 196-207 with no node found, or page.$$ rejecting into the empty catch:
\* attempts++, one second of waiting
PollAgain ==
  /\ wpc = "poll"
  /\ ShouldPoll
  /\ \E threw \in BOOLEAN :
       swallowed' = IF threw /\ swallowed < MaxSwallowed
                    THEN swallowed + 1 ELSE swallowed
  /\ attempts' = attempts + 1
  /\ UNCHANGED <<wpc, loaded, found, selIdx, tried, hasMore,
                 expandedCount, totalExpanded, closeSwitchers>>
  /\ UNCHANGED <<treeVars, runVars, pathVars>>

\* the while condition fails with loaded still false: the else branch, 212
PollGivesUp ==
  /\ wpc = "poll"
  /\ ~loaded
  /\ ~ShouldPoll
  /\ wpc' = "fallback"
  /\ UNCHANGED <<loaded, attempts, found, selIdx, tried, swallowed, hasMore,
                 expandedCount, totalExpanded, closeSwitchers>>
  /\ UNCHANGED <<treeVars, runVars, pathVars>>

\* 220-224: waitForSelector resolves, found = true, break
FallbackFound ==
  /\ wpc = "fallback"
  /\ selIdx <= Len(fallbackSelectors)
  /\ tried' = Append(tried, fallbackSelectors[selIdx])
  /\ found' = TRUE
  /\ wpc' = "settle"
  /\ UNCHANGED <<loaded, attempts, selIdx, swallowed, hasMore,
                 expandedCount, totalExpanded, closeSwitchers>>
  /\ UNCHANGED <<treeVars, runVars, pathVars>>

\* a waitForSelector whose rejection is not caught
FallbackTimeoutThrows ==
  /\ wpc = "fallback"
  /\ selIdx <= Len(fallbackSelectors)
  /\ tried' = Append(tried, fallbackSelectors[selIdx])
  /\ wpc' = "thrown"
  /\ UNCHANGED <<loaded, attempts, found, selIdx, swallowed, hasMore,
                 expandedCount, totalExpanded, closeSwitchers>>
  /\ UNCHANGED <<treeVars, runVars, pathVars>>

\* 220-227: waitForSelector rejects after its timeout, the next selector
FallbackTimeout ==
  /\ wpc = "fallback"
  /\ selIdx <= Len(fallbackSelectors)
  /\ tried' = Append(tried, fallbackSelectors[selIdx])
  /\ swallowed' = IF swallowed < MaxSwallowed THEN swallowed + 1 ELSE swallowed
  /\ selIdx' = selIdx + 1
  /\ UNCHANGED <<wpc, loaded, attempts, found, hasMore,
                 expandedCount, totalExpanded, closeSwitchers>>
  /\ UNCHANGED <<treeVars, runVars, pathVars>>

\* the for-of loop is exhausted, 230-232
FallbackExhausted ==
  /\ wpc = "fallback"
  /\ selIdx > Len(fallbackSelectors)
  /\ wpc' = "settle"
  /\ UNCHANGED <<loaded, attempts, found, selIdx, tried, swallowed, hasMore,
                 expandedCount, totalExpanded, closeSwitchers>>
  /\ UNCHANGED <<treeVars, runVars, pathVars>>

\* 236: two seconds of rendering; the page shows some closed switchers
Settle ==
  /\ wpc = "settle"
  /\ closeSwitchers' \in 0..MaxSwitchers
  /\ wpc' = "expand"
  /\ UNCHANGED <<loaded, attempts, found, selIdx, tried, swallowed, hasMore,
                 expandedCount, totalExpanded>>
  /\ UNCHANGED <<treeVars, runVars, pathVars>>

\* 244-265 with count > 0: every closed switcher is clicked (a click that
\* throws is not counted), then 500 ms in which the page opens, keeps or
\* adds closed switchers
ExpandSome ==
  /\ wpc = "expand"
  /\ hasMore
  /\ \E count \in 1..closeSwitchers :
       /\ expandedCount' = count
       /\ totalExpanded' = IF totalExpanded + count > MaxExpanded
                           THEN MaxExpanded ELSE totalExpanded + count
  /\ closeSwitchers' \in 0..MaxSwitchers
  /\ UNCHANGED <<wpc, loaded, attempts, found, selIdx, tried, swallowed, hasMore>>
  /\ UNCHANGED <<treeVars, runVars, pathVars>>

\* 244-262 with count = 0 (no closed switcher, or every click threw):
\* hasMore = false, the loop ends, 272-279
ExpandNone ==
  /\ wpc = "expand"
  /\ hasMore
  /\ expandedCount' = 0
  /\ hasMore' = FALSE
  /\ wpc' = "done"
  /\ UNCHANGED <<loaded, attempts, found, selIdx, tried, swallowed,
                 totalExpanded, closeSwitchers>>
  /\ UNCHANGED <<treeVars, runVars, pathVars>>

\* 244: page.evaluate rejects (the page crashed or navigated away); nothing
\* in waitForDirectoryTree catches it
ExpandThrows ==
  /\ wpc = "expand"
  /\ hasMore
  /\ wpc' = "thrown"
  /\ UNCHANGED <<loaded, attempts, found, selIdx, tried, swallowed, hasMore,
                 expandedCount, totalExpanded, closeSwitchers>>
  /\ UNCHANGED <<treeVars, runVars, pathVars>>

WaitNext ==
  \/ PollLoaded
  \/ PollAgain
  \/ PollGivesUp
  \/ FallbackFound
  \/ FallbackTimeout
  \/ FallbackExhausted
  \/ Settle
  \/ ExpandSome
  \/ ExpandNone
  \/ ExpandThrows

SpecWait == WaitInit /\ [][WaitNext]_vars

\* Every await of waitForDirectoryTree is on a timer or on a call that
\* puppeteer settles (a query returns or rejects, waitForSelector has a
\* timeout), so a step that is possible is eventually taken.
FairSpecWait == SpecWait /\ WF_vars(WaitNext)

\* ------------------------------------------------ claims about buildTree

Range(seq) == {seq[k] : k \in 1..Len(seq)}

Increasing(seq) == \A k \in 1..(Len(seq) - 1) : seq[k] < seq[k + 1]

\* The nearest record before record i whose level is smaller; 0 when none.
NearestSmaller(i) ==
  LET smaller == {j \in 1..(i - 1) : flatNodes[j].level < flatNodes[i].level}
  IN  IF smaller = {} THEN 0 ELSE CHOOSE j \in smaller : \A k \in smaller : k <= j

\* The children list record p's node has in the build state (p = 0: result).
ChildList(p) == IF p = 0 THEN bt.result ELSE bt.heap[p].children

Levels(nodes) == [k \in 1..Len(nodes) |-> nodes[k].level]

\* C1: at every point of buildTree, each processed record's node is in the
\* children of the nearest preceding record with a strictly smaller level, or
\* in result when there is none; each list holds exactly those nodes in input
\* order, and the node just inserted is the last of its list.  For the levels
\* 0,1,2,0 the result is A (child B, whose child is C) and D without children.
C1_NearestSmallerParent ==
  xpc = "forEach" =>
    /\ Len(bt.heap) = bi - 1
    /\ \A p \in 0..Len(bt.heap) :
         /\ Range(ChildList(p)) = {i \in 1..Len(bt.heap) : NearestSmaller(i) = p}
         /\ Increasing(ChildList(p))
    /\ bi > 1 => LET list == ChildList(NearestSmaller(bi - 1))
                 IN  list[Len(list)] = bi - 1
    /\ (bi > Len(flatNodes) /\ Levels(flatNodes) = <<0, 1, 2, 0>>) =>
         /\ bt.result = <<1, 4>>
         /\ bt.heap[1].children = <<2>>
         /\ bt.heap[2].children = <<3>>
         /\ bt.heap[3].children = <<>>
         /\ bt.heap[4].children = <<>>

\* buildTree has processed rows with the levels 0,1,2,0.
C1_Witness ==
  /\ xpc = "forEach"
  /\ bi > Len(flatNodes)
  /\ Levels(flatNodes) = <<0, 1, 2, 0>>
  /\ bt.result = <<1, 4>>

\* The number of a row, from its title.
RowNumber(title) == CHOOSE n \in 1..Len(RowTitles) : RowTitles[n] = title

RECURSIVE NodesOf(_)
\* Every node of a forest, with multiplicity kept by its unique title.
NodesOf(children) ==
  IF Len(children) = 0 THEN {}
  ELSE {Head(children)} \cup NodesOf(Head(children).children) \cup NodesOf(Tail(children))

\* C2: the forest buildTree returns holds one node per input record, every
\* node's children are in the order of their records, and the nodes that carry
\* a URL are as many as the input records that carry one.
C2_OrderAndUrlCount ==
  (xpc = "forEach" /\ bi > Len(flatNodes)) =>
    LET forest == SerializeForest(bt)
        nodes  == NodesOf(forest)
    IN  /\ NodeCount(forest) = Len(flatNodes)
        /\ {n.title : n \in nodes} = {flatNodes[k].title : k \in 1..Len(flatNodes)}
        /\ Increasing([k \in 1..Len(forest) |-> RowNumber(forest[k].title)])
        /\ \A n \in nodes :
             Increasing([k \in 1..Len(n.children) |-> RowNumber(n.children[k].title)])
        /\ countLinksFrom(forest, 1)
             = Cardinality({k \in 1..Len(flatNodes) : flatNodes[k].url # NoUrl})

\* A finished forest with a node that has two children and a level jump.
C2_Witness ==
  /\ xpc = "forEach"
  /\ bi > Len(flatNodes)
  /\ Levels(flatNodes) = <<0, 2, 1, 0>>
  /\ flatNodes[1].url = NoUrl
  /\ flatNodes[2].url # NoUrl
  /\ flatNodes[3].url # NoUrl
  /\ bt.heap[1].children = <<2, 3>>

\* flatten of the array buildTree returns: its nodes traversed in order.
FlattenForest(forest) == traverseChildren(forest, 1)

\* C3: for the forest buildTree returns, flattening it, building a tree from
\* the link records (which carry no level) and flattening again gives the same
\* link records in the same order.
C3_RoundTrip ==
  (xpc = "forEach" /\ bi > Len(flatNodes)) =>
    LET flat == FlattenForest(SerializeForest(bt))
    IN  FlattenForest(SerializeForest(buildTree(flat))) = flat

\* A finished forest with siblings and nesting and at least three links.
C3_Witness ==
  /\ xpc = "forEach"
  /\ bi > Len(flatNodes)
  /\ Levels(flatNodes) = <<0, 1, 1, 0>>
  /\ Len(FlattenForest(SerializeForest(bt))) = 3

\* ---------------------------------------------- claims about flattenTree

RECURSIVE Paths(_)
\* The positions of the nodes of a tree: the child numbers from the root down.
Paths(node) ==
  {<<>>} \cup UNION {{<<k>> \o p : p \in Paths(node.children[k])} :
                      k \in 1..Len(node.children)}

RECURSIVE NodeAt(_, _)
NodeAt(node, path) ==
  IF path = <<>> THEN node ELSE NodeAt(node.children[Head(path)], Tail(path))

\* Document order: an ancestor before its descendants, an earlier sibling's
\* subtree before a later sibling's.
RECURSIVE Before(_, _)
Before(p, q) ==
  IF p = <<>> THEN q # <<>>
  ELSE IF q = <<>> THEN FALSE
  ELSE IF Head(p) # Head(q) THEN Head(p) < Head(q)
  ELSE Before(Tail(p), Tail(q))

RECURSIVE InOrder(_)
\* The positions of a set, sorted in document order.
InOrder(S) ==
  IF S = {} THEN <<>>
  ELSE LET first == CHOOSE p \in S : \A q \in S \ {p} : Before(p, q)
       IN  <<first>> \o InOrder(S \ {first})

\* C5: flattenTree of the extracted tree is the link records of exactly the
\* positions that carry a URL, each once, in document order; a node without a
\* URL contributes nothing itself, its descendants are still emitted.
C5_FlattenPreOrder ==
  xpc = "done" =>
    LET withUrl == {p \in Paths(tree) : NodeAt(tree, p).url # NoUrl}
        order   == InOrder(withUrl)
    IN  allLinks = [k \in 1..Len(order) |-> LinkOf(NodeAt(tree, order[k]))]

\* A flattened tree with two roots under the wrapper without URL, a folder row
\* with a linked descendant, and a linked row with a linked child.
C5_Witness ==
  /\ xpc = "done"
  /\ tree.url = NoUrl
  /\ Len(tree.children) = 2
  /\ \E p \in Paths(tree) :
       /\ p # <<>>
       /\ NodeAt(tree, p).url = NoUrl
       /\ Len(NodeAt(tree, p).children) > 0
       /\ NodeAt(tree, p).children[1].url # NoUrl
  /\ \E p \in Paths(tree) :
       /\ Len(p) >= 2
       /\ NodeAt(tree, p).url # NoUrl
       /\ Len(NodeAt(tree, p).children) > 0
       /\ NodeAt(tree, p).children[1].url # NoUrl

\* ------------------------------------------------------------ urlToFilePath

IllegalChars == {"<", ">", ":", "\"", "|", "?", "*"}

HtmlExt == <<".", "h", "t", "m", "l">>

\* filePath.startsWith('/') ? filePath.substring(1) : filePath
StripLeadingSlash(p) == IF Len(p) > 0 /\ p[1] = "/" THEN Tail(p) ELSE p

\* filePath.replace(/[<>:"|?*]/g, '_')
ReplaceIllegal(p) == [k \in 1..Len(p) |-> IF p[k] \in IllegalChars THEN "_" ELSE p[k]]

\* if (!filePath || filePath === '/') filePath = 'index'
DefaultIndex(p) == IF p = <<>> \/ p = <<"/">> THEN <<"i", "n", "d", "e", "x">> ELSE p

EndsWith(p, suffix) ==
  Len(p) >= Len(suffix) /\ SubSeq(p, Len(p) - Len(suffix) + 1, Len(p)) = suffix

\* Mutant: the extension is appended whatever the path ends with.
EnsureHtmlAlways(p) == p \o HtmlExt

\* if (!filePath.endsWith('.html')) filePath = filePath + '.html'
EnsureHtml(p) == IF EndsWith(p, HtmlExt) THEN p ELSE p \o HtmlExt

\* The path below outputDir; new URL(url) throwing gives error.html.
urlToFilePath(url) ==
  IF Pathname(url) = NoPath
  THEN <<"e", "r", "r", "o", "r">> \o HtmlExt
  ELSE EnsureHtml(DefaultIndex(ReplaceIllegal(StripLeadingSlash(Pathname(url)))))

\* path.join(this.outputDir, 'index.html')
IndexPath == <<"i", "n", "d", "e", "x">> \o HtmlExt

\* -------------------------------------------- urlToFilePath, step by step
\* scraper.js 460-488 on one URL: the statements of the try block in order,
\* filePath being the local they assign.  The URLs are everything new URL
\* can make of the argument: an exception, or a pathname that starts with a
\* slash.

PathChars == {"a", "/", ":"}

SeqsUpTo(S, n) == UNION {[1..k -> S] : k \in 0..n}

PathExts == {<<>>, HtmlExt, <<".", "h", "t", "m">>}

Pathnames == {<<"/">> \o body \o ext : body \in SeqsUpTo(PathChars, MaxPathLen), ext \in PathExts}

UrlObjs == {[valid |-> FALSE, pathname |-> NoPath]}
             \cup {[valid |-> TRUE, pathname |-> p] : p \in Pathnames}

ErrorPath == <<"e", "r", "r", "o", "r">> \o HtmlExt

PathInit ==
  /\ RunIdle
  /\ WaitIdle
  /\ startUrl = <<RootA>>
  /\ rootIdx = 1
  /\ flatNodes = <<>>
  /\ bt = BuildTreeInit
  /\ bi = 1
  /\ allTrees = <<>>
  /\ tree = <<>>
  /\ allLinks = <<>>
  /\ xpc = "idle"
  /\ urlObj \in UrlObjs
  /\ filePath = <<>>
  /\ ppc = "new"

\* 462-463: new URL(url) throws into the catch at 484-487, or gives pathname
NewUrl ==
  /\ ppc = "new"
  /\ IF urlObj.valid
     THEN filePath' = urlObj.pathname /\ ppc' = "strip"
     ELSE filePath' = ErrorPath /\ ppc' = "returned"
  /\ UNCHANGED <<urlObj, treeVars, runVars, waitVars>>

\* 466-468
StripSlash ==
  /\ ppc = "strip"
  /\ filePath' = StripLeadingSlash(filePath)
  /\ ppc' = "replace"
  /\ UNCHANGED <<urlObj, treeVars, runVars, waitVars>>

\* 471
Replace ==
  /\ ppc = "replace"
  /\ filePath' = ReplaceIllegal(filePath)
  /\ ppc' = "default"
  /\ UNCHANGED <<urlObj, treeVars, runVars, waitVars>>

\* 474-476
Default ==
  /\ ppc = "default"
  /\ filePath' = DefaultIndex(filePath)
  /\ ppc' = "ensure"
  /\ UNCHANGED <<urlObj, treeVars, runVars, waitVars>>

\* 479-483: the extension, then the path below outputDir is returned
Ensure ==
  /\ ppc = "ensure"
  /\ filePath' = EnsureHtml(filePath)
  /\ ppc' = "returned"
  /\ UNCHANGED <<urlObj, treeVars, runVars, waitVars>>

PathNext ==
  \/ NewUrl
  \/ StripSlash
  \/ Replace
  \/ Default
  \/ Ensure

SpecPath == PathInit /\ [][PathNext]_vars

\* ------------------------------------------------------- saveLinks, loadLinks

\* Mutant: total counts the links below the top node only.
saveLinksTotalBelowRoot(t, roots) ==
  [kind |-> "json", extractedAt |-> "now", startUrl |-> roots,
   total |-> countLinksFrom(t.children, 1),
   hasTree |-> TRUE, tree |-> t, hasLinks |-> TRUE, links |-> flattenTree(t)]

\* The data object saveLinks writes to links.json.
saveLinks(t, roots) ==
  [kind |-> "json", extractedAt |-> "now", startUrl |-> roots,
   total |-> Len(flattenTree(t)),
   hasTree |-> TRUE, tree |-> t, hasLinks |-> TRUE, links |-> flattenTree(t)]

\* links.json as the previous schema revision wrote it: links only.
LegacyFile(list) ==
  [kind |-> "json", extractedAt |-> "old", startUrl |-> <<RootA>>,
   total |-> Len(list),
   hasTree |-> FALSE, tree |-> <<>>, hasLinks |-> TRUE, links |-> list]

\* links.json as an earlier run of this revision wrote it.
OldFile(t, roots) == [saveLinks(t, roots) EXCEPT !.extractedAt = "old"]

\* No links.json; one that is not JSON; a JSON object without tree and links.
AbsentFile == [kind |-> "absent"]
CorruptFile == [kind |-> "corrupt"]
EmptyObjectFile ==
  [kind |-> "json", extractedAt |-> "old", startUrl |-> <<RootA>>, total |-> 0,
   hasTree |-> FALSE, tree |-> <<>>, hasLinks |-> FALSE, links |-> <<>>]

\* Mutant: a file that cannot be read counts as an empty list of links.
loadLinksLenient(file) ==
  IF file.kind # "json" THEN [form |-> "links", links |-> <<>>]
  ELSE IF file.hasTree THEN [form |-> "tree", tree |-> file.tree]
  ELSE IF file.hasLinks THEN [form |-> "links", links |-> file.links]
  ELSE [form |-> "throw"]

\* loadLinks: the tree if there is one, else the links, else it throws; every
\* error, also readJson's, is rethrown as "run the extract stage first".
loadLinks(file) ==
  IF file.kind # "json" THEN [form |-> "throw"]
  ELSE IF file.hasTree THEN [form |-> "tree", tree |-> file.tree]
  ELSE IF file.hasLinks THEN [form |-> "links", links |-> file.links]
  ELSE [form |-> "throw"]

\* Mutant: a stored list is flattened like a tree, which finds no node in it.
LinksOfDataFlattening(d) == IF d.form = "tree" THEN flattenTree(d.tree) ELSE <<>>

\* scrapeStage: links = flattenTree(data) for a tree, data itself for an array.
LinksOfData(d) == IF d.form = "tree" THEN flattenTree(d.tree) ELSE d.links

RECURSIVE generateTreeHtml(_, _)
RECURSIVE generateTreeHtmlChildren(_, _, _)

\* Mutant: nodes without url get no heading.
generateTreeHtmlLinksOnly(node, level) ==
  (IF node.url # NoUrl
   THEN <<[kind |-> "tree-item", href |-> urlToFilePath(node.url),
           title |-> node.title, level |-> level]>>
   ELSE <<>>)
    \o generateTreeHtmlChildren(node.children, 1, level + 1)

\* generateTreeHtml(node, outputDir, level): one <li> with a link for a node
\* with a url, one folder <li> for a titled node without url below the top
\* level, then the <li>s of the children one level deeper.
generateTreeHtml(node, level) ==
  (IF node.url # NoUrl
   THEN <<[kind |-> "tree-item", href |-> urlToFilePath(node.url),
           title |-> node.title, level |-> level]>>
   ELSE IF level > 0
        THEN <<[kind |-> "tree-folder", title |-> node.title, level |-> level]>>
        ELSE <<>>)
    \o generateTreeHtmlChildren(node.children, 1, level + 1)

generateTreeHtmlChildren(children, k, level) ==
  IF k > Len(children) THEN <<>>
  ELSE generateTreeHtml(children[k], level)
         \o generateTreeHtmlChildren(children, k + 1, level)

\* generateIndexHtml(data): totalCount = flattenTree(data).length and the list
\* generateTreeHtml(data) makes.  An array has neither url, title nor children,
\* so both find nothing in it.
IndexDoc(d) ==
  [kind |-> "index",
   count |-> IF d.form = "tree" THEN Len(flattenTree(d.tree)) ELSE 0,
   list |-> IF d.form = "tree" THEN generateTreeHtml(d.tree, 0) ELSE <<>>]

\* -------------------------------------------------- one invocation: inputs

RunRowKinds == {0, 1} \X {NoUrl, UrlA, UrlAH}

RunFlatSeqs(first, len) ==
  {[k \in 1..len |-> FlatNode(f[k], first + k)] : f \in [1..len -> RunRowKinds]}

\* What page.evaluate can return for one root when at most budget rows are
\* left: the root alone (no .ant-tree), or the root over buildTree's result.
EvaluatedTrees(root, first, budget) ==
  {RootNode(root, <<>>)}
    \cup UNION {{RootNode(root, SerializeForest(buildTree(rows))) :
                   rows \in RunFlatSeqs(first, len)} : len \in 0..budget}

LegacyLink(url, n) == [url |-> url, title |-> RowTitles[n], pathname |-> Pathname(url)]

\* The link lists of the legacy files in the model.
LegacyLists ==
  {<<>>,
   <<LegacyLink(UrlA, 1), LegacyLink(UrlB, 2)>>,
   <<LegacyLink(UrlA, 1), LegacyLink(UrlA, 2), LegacyLink(UrlAH, 3)>>}

\* links.json when a scrape or index stage starts.
StoredFiles ==
  {AbsentFile, CorruptFile, EmptyObjectFile}
    \cup {LegacyFile(list) : list \in LegacyLists}
    \cup {OldFile(t, <<RootA>>) : t \in EvaluatedTrees(RootA, 0, MaxRunRows)}
    \cup {OldFile(ComposeTrees(<<RootNode(RootA, <<>>), t>>), <<RootA, RootB>>) :
            t \in EvaluatedTrees(RootB, 0, 1)}

OldContent == [kind |-> "old"]

\* The files below outputDir when the invocation starts.
StoredDirs ==
  {[exists |-> FALSE, files |-> <<>>],
   [exists |-> TRUE, files |-> <<>>],
   [exists |-> TRUE, files |-> [q \in {urlToFilePath(UrlA), IndexPath} |-> OldContent]]}

Ev(op, arg) == [op |-> op, arg |-> arg]

\* ---------------------------------------------------------------- parseArgs

\* Mutant: any value after --stage is taken as a stage.
ValidStageAny(v) == TRUE

\* ['extract', 'scrape', 'all', 'index'].includes(stageValue)
ValidStage(v) == v \in {"extract", "scrape", "all", "index"}

\* args[++i]: the next argument, undefined past the end.
ArgAt(args, i) == IF i <= Len(args) THEN args[i] ELSE "undefined"

\* The config parseArgs starts from; exit is the status of a process.exit
\* inside parseArgs, -1 when it returns.
DefaultConfig == [incremental |-> FALSE, dryRun |-> FALSE, stage |-> "all", exit |-> -1]

\* The for loop of parseArgs from args[i] on.  A value after --stage that is
\* no stage ends the process with 1, --help with 0; stage then holds what was
\* asked for.  The values after --output and --url are skipped.
RECURSIVE ParseFrom(_, _, _)
ParseFrom(args, i, config) ==
  IF i > Len(args) THEN config
  ELSE IF args[i] \in {"--incremental", "-i"}
       THEN ParseFrom(args, i + 1, [config EXCEPT !.incremental = TRUE])
  ELSE IF args[i] \in {"--dry-run", "-d"}
       THEN ParseFrom(args, i + 1, [config EXCEPT !.dryRun = TRUE])
  ELSE IF args[i] \in {"--stage", "-s"}
       THEN IF ValidStage(ArgAt(args, i + 1))
            THEN ParseFrom(args, i + 2, [config EXCEPT !.stage = ArgAt(args, i + 1)])
            ELSE [config EXCEPT !.stage = ArgAt(args, i + 1), !.exit = 1]
  ELSE IF args[i] \in {"--output", "-o", "--url", "-u"}
       THEN ParseFrom(args, i + 2, config)
  ELSE IF args[i] \in {"--help", "-h"}
       THEN [config EXCEPT !.stage = "help", !.exit = 0]
  ELSE ParseFrom(args, i + 1, config)

parseArgs(args) == ParseFrom(args, 1, DefaultConfig)

\* The command lines of the model: a stage part and a flag part, in either
\* order.
StageArgs ==
  {<<>>, <<"--stage", "extract">>, <<"-s", "scrape">>, <<"--stage", "index">>,
   <<"-s", "all">>, <<"--stage", "bogus">>, <<"--stage">>, <<"--help">>}

FlagArgs == {<<>>, <<"-i">>, <<"--dry-run">>, <<"--incremental", "-d">>}

ArgLists == {f \o g : f \in StageArgs, g \in FlagArgs} \cup {g \o f : f \in StageArgs, g \in FlagArgs}

\* main: parseArgs, new HarmonyDocsScraper(...), and the dispatch on this.stage
\* in scrapeAll.
Init ==
  /\ \E args \in ArgLists :
       /\ stage = parseArgs(args).stage
       /\ incremental = parseArgs(args).incremental
       /\ dryRun = parseArgs(args).dryRun
       /\ pc = CASE parseArgs(args).exit # -1 -> "exit"
                 [] stage = "extract" -> "init"
                 [] stage = "all" -> "clear"
                 [] OTHER -> "load"
  /\ startUrl \in IF stage \in {"extract", "all"}
                 THEN {<<RootA>>, <<RootA, RootB>>} ELSE {<<RootA>>}
  /\ linksFile \in IF stage \in {"scrape", "index"}
                  THEN StoredFiles
                  ELSE {AbsentFile, LegacyFile(<<LegacyLink(UrlA, 1)>>)}
  /\ \E d \in StoredDirs : dirExists = d.exists /\ files = d.files
  /\ browser = "null"
  /\ visitedUrls = {}
  /\ failedUrls = <<>>
  /\ successCount = 0
  /\ skippedCount = 0
  /\ data = [form |-> "none"]
  /\ links = <<>>
  /\ li = 1
  /\ pending = "none"
  /\ thrown = "none"
  /\ exitCode = -1
  /\ events = <<>>
  /\ rootIdx = 1
  /\ flatNodes = <<>>
  /\ bt = BuildTreeInit
  /\ bi = 1
  /\ allTrees = <<>>
  /\ tree = <<>>
  /\ allLinks = <<>>
  /\ xpc = "idle"
  /\ WaitIdle
  /\ PathIdle

\* ------------------------------------------------- one invocation: actions

configVars == <<stage, incremental, dryRun, startUrl>>
buildVars == <<flatNodes, bt, bi, xpc>>
extractVars == <<rootIdx, allTrees, tree, allLinks>>
crawlVars == <<visitedUrls, failedUrls, successCount, skippedCount>>
dirVars == <<dirExists, files>>

RunExtractFirst == "links file missing, run --stage extract first"

\* scrapeStage: loadLinks throws; the catch rethrows, finally runs.
ScrapeLoadThrows ==
  /\ pc = "load"
  /\ stage = "scrape"
  /\ loadLinks(linksFile).form = "throw"
  /\ events' = events \o <<Ev("load", "links.json"), Ev("rejected", "load")>>
  /\ pending' = "throw"
  /\ thrown' = RunExtractFirst
  /\ pc' = "finally"
  /\ UNCHANGED <<configVars, waitVars, pathVars, buildVars, extractVars, crawlVars, dirVars, linksFile,
                 browser, data, links, li, exitCode>>

\* Mutant: scrapeStage stamps links.json with the time it was loaded.
ScrapeLoadStamping ==
  /\ pc = "load"
  /\ stage = "scrape"
  /\ loadLinks(linksFile).form # "throw"
  /\ data' = loadLinks(linksFile)
  /\ links' = LinksOfData(data')
  /\ linksFile' = [linksFile EXCEPT !.extractedAt = "now"]
  /\ events' = Append(events, Ev("load", "links.json"))
  /\ pending' = IF Len(links') = 0 THEN "return" ELSE pending
  /\ pc' = IF Len(links') = 0 THEN "finally" ELSE "clear"
  /\ UNCHANGED <<configVars, waitVars, pathVars, buildVars, extractVars, crawlVars, dirVars,
                 browser, li, thrown, exitCode>>

\* scrapeStage: loadLinks returns, links is computed; an empty list returns.
ScrapeLoad ==
  /\ pc = "load"
  /\ stage = "scrape"
  /\ loadLinks(linksFile).form # "throw"
  /\ data' = loadLinks(linksFile)
  /\ links' = LinksOfData(data')
  /\ events' = Append(events, Ev("load", "links.json"))
  /\ pending' = IF Len(links') = 0 THEN "return" ELSE pending
  /\ pc' = IF Len(links') = 0 THEN "finally" ELSE "clear"
  /\ UNCHANGED <<configVars, waitVars, pathVars, buildVars, extractVars, crawlVars, dirVars, linksFile,
                 browser, li, thrown, exitCode>>

\* scrapeAll, stage index: loadLinks throws.
IndexLoadThrows ==
  /\ pc = "load"
  /\ stage = "index"
  /\ loadLinks(linksFile).form = "throw"
  /\ events' = events \o <<Ev("load", "links.json"), Ev("rejected", "load")>>
  /\ pending' = "throw"
  /\ thrown' = RunExtractFirst
  /\ pc' = "finally"
  /\ UNCHANGED <<configVars, waitVars, pathVars, buildVars, extractVars, crawlVars, dirVars, linksFile,
                 browser, data, links, li, exitCode>>

\* Mutant: stage index falls through to the full run after loading.
IndexLoadLaunching ==
  /\ pc = "load"
  /\ stage = "index"
  /\ loadLinks(linksFile).form # "throw"
  /\ data' = loadLinks(linksFile)
  /\ links' = LinksOfData(data')
  /\ events' = Append(events, Ev("load", "links.json"))
  /\ pc' = "init"
  /\ UNCHANGED <<configVars, waitVars, pathVars, buildVars, extractVars, crawlVars, dirVars, linksFile,
                 browser, li, pending, thrown, exitCode>>

\* scrapeAll, stage index: loadLinks returns; a dry run only prints the count.
IndexLoad ==
  /\ pc = "load"
  /\ stage = "index"
  /\ loadLinks(linksFile).form # "throw"
  /\ data' = loadLinks(linksFile)
  /\ links' = LinksOfData(data')
  /\ events' = Append(events, Ev("load", "links.json"))
  /\ pending' = IF dryRun THEN "return" ELSE pending
  /\ pc' = IF dryRun THEN "finally" ELSE "index"
  /\ UNCHANGED <<configVars, waitVars, pathVars, buildVars, extractVars, crawlVars, dirVars, linksFile,
                 browser, li, thrown, exitCode>>

\* Mutant: the dry-run flag is ignored.
ShouldClearInDryRun == ~incremental

\* Mutant: the incremental flag is ignored.
ShouldClearAlways == ~dryRun

\* if (!this.dryRun) { if (this.incremental) ... else emptyDir }
ShouldClear == ~dryRun /\ ~incremental

\* scrapeStage and stage all: a dry run or an incremental run keeps outputDir.
KeepOutputDir ==
  /\ pc = "clear"
  /\ ~ShouldClear
  /\ pc' = "init"
  /\ UNCHANGED <<configVars, waitVars, pathVars, buildVars, extractVars, crawlVars, dirVars, linksFile,
                 browser, data, links, li, pending, thrown, exitCode, events>>

\* Mutant: the directory is made sure to exist and its files are kept.
EmptyOutputDirKeepingFiles ==
  /\ pc = "clear"
  /\ ShouldClear
  /\ dirExists' = TRUE
  /\ events' = Append(events, Ev("emptyDir", "outputDir"))
  /\ pc' = "init"
  /\ UNCHANGED <<configVars, waitVars, pathVars, buildVars, extractVars, crawlVars, files, linksFile,
                 browser, data, links, li, pending, thrown, exitCode>>

\* scrapeStage and stage all: fs.emptyDir(this.outputDir).
EmptyOutputDir ==
  /\ pc = "clear"
  /\ ShouldClear
  /\ dirExists' = TRUE
  /\ files' = <<>>
  /\ events' = Append(events, Ev("emptyDir", "outputDir"))
  /\ pc' = "init"
  /\ UNCHANGED <<configVars, waitVars, pathVars, buildVars, extractVars, crawlVars, linksFile,
                 browser, data, links, li, pending, thrown, exitCode>>

\* fs.emptyDir rejects.
EmptyOutputDirThrows ==
  /\ pc = "clear"
  /\ ShouldClear
  /\ events' = events \o <<Ev("emptyDir", "outputDir"), Ev("rejected", "emptyDir")>>
  /\ pending' = "throw"
  /\ thrown' = "emptyDir failed"
  /\ pc' = "finally"
  /\ UNCHANGED <<configVars, waitVars, pathVars, buildVars, extractVars, crawlVars, dirVars, linksFile,
                 browser, data, links, li, exitCode>>

\* init(): the browser is launched; scrapeStage's dry run lists and returns.
InitBrowser ==
  /\ pc = "init"
  /\ browser' = "open"
  /\ events' = Append(events, Ev("launch", "browser"))
  /\ pending' = IF stage = "scrape" /\ dryRun THEN "return" ELSE pending
  /\ pc' = IF stage = "scrape" THEN (IF dryRun THEN "finally" ELSE "fetch") ELSE "goto"
  /\ UNCHANGED <<configVars, waitVars, pathVars, buildVars, extractVars, crawlVars, dirVars, linksFile,
                 data, links, li, thrown, exitCode>>

\* init() rejects: in puppeteer.launch (this.browser stays null) or after it.
InitThrows ==
  /\ pc = "init"
  /\ \E launched \in BOOLEAN : browser' = IF launched THEN "open" ELSE "null"
  /\ events' = events \o <<Ev("launch", "browser"), Ev("rejected", "launch")>>
  /\ pending' = "throw"
  /\ thrown' = "init failed"
  /\ pc' = "finally"
  /\ UNCHANGED <<configVars, waitVars, pathVars, buildVars, extractVars, crawlVars, dirVars, linksFile,
                 data, links, li, exitCode>>

\* extractLinks: page.goto(startUrl) and waitForDirectoryTree for one root.
GotoRoot ==
  /\ pc = "goto"
  /\ events' = Append(events, Ev("gotoRoot", startUrl[rootIdx]))
  /\ pc' = "evaluate"
  /\ UNCHANGED <<configVars, waitVars, pathVars, buildVars, extractVars, crawlVars, dirVars, linksFile,
                 browser, data, links, li, pending, thrown, exitCode>>

\* extractLinks: page.goto(startUrl) rejects; nothing in extractLinks catches it.
GotoRootThrows ==
  /\ pc = "goto"
  /\ events' = events \o <<Ev("gotoRoot", startUrl[rootIdx]), Ev("rejected", "gotoRoot")>>
  /\ pending' = "throw"
  /\ thrown' = "navigation failed"
  /\ pc' = "finally"
  /\ UNCHANGED <<configVars, waitVars, pathVars, buildVars, extractVars, crawlVars, dirVars, linksFile,
                 browser, data, links, li, exitCode>>

\* extractLinks: page.evaluate for one root, allTrees.push(tree); after the last
\* root the result is composed and the caller flattens it.  extractStage returns
\* without saving when the flattened list is empty.
EvaluateRoot ==
  /\ pc = "evaluate"
  /\ LET used == NodeCount(allTrees) - Len(allTrees)
     IN  \E t \in EvaluatedTrees(startUrl[rootIdx], used, MaxRunRows - used) :
           allTrees' = Append(allTrees, t)
  /\ rootIdx' = rootIdx + 1
  /\ tree' = IF rootIdx < Len(startUrl) THEN tree ELSE ComposeTrees(allTrees')
  /\ allLinks' = IF rootIdx < Len(startUrl) THEN allLinks ELSE flattenTree(tree')
  /\ pending' = IF rootIdx = Len(startUrl) /\ stage = "extract" /\ Len(allLinks') = 0
                THEN "return" ELSE pending
  /\ pc' = IF rootIdx < Len(startUrl) THEN "goto"
           ELSE IF stage = "extract" /\ Len(allLinks') = 0 THEN "finally"
           ELSE "save"
  /\ UNCHANGED <<configVars, waitVars, pathVars, buildVars, crawlVars, dirVars, linksFile,
                 browser, data, links, li, thrown, exitCode, events>>

\* Mutant: stage all fetches the root page last.
LinksOfAllRootLast ==
  IF Len(allLinks) = 0
  THEN <<[url |-> startUrl[1], title |-> "start page", pathname |-> Pathname(startUrl[1])]>>
  ELSE Tail(allLinks) \o <<Head(allLinks)>>

\* The list stage all fetches: allLinks, or the first start URL alone when
\* allLinks is empty.
LinksOfAll ==
  IF Len(allLinks) = 0
  THEN <<[url |-> startUrl[1], title |-> "start page", pathname |-> Pathname(startUrl[1])]>>
  ELSE allLinks

\* Mutant: a links.json that is on disk is left as it is.
SaveLinksOnce ==
  /\ pc = "save"
  /\ linksFile' = IF linksFile.kind = "json" THEN linksFile ELSE saveLinks(tree, startUrl)
  /\ events' = Append(events, Ev("save", "links.json"))
  /\ links' = IF stage = "all" /\ ~dryRun THEN LinksOfAll ELSE links
  /\ pending' = IF stage = "all" /\ ~dryRun THEN pending ELSE "return"
  /\ pc' = IF stage = "all" /\ ~dryRun THEN "fetch" ELSE "finally"
  /\ UNCHANGED <<configVars, waitVars, pathVars, buildVars, extractVars, crawlVars, dirVars,
                 browser, data, li, thrown, exitCode>>

\* saveLinks(tree) writes links.json.  extractStage then returns (a dry run
\* prints the links first); stage all returns on a dry run, else starts the
\* fetch loop.
SaveLinks ==
  /\ pc = "save"
  /\ linksFile' = saveLinks(tree, startUrl)
  /\ events' = Append(events, Ev("save", "links.json"))
  /\ links' = IF stage = "all" /\ ~dryRun THEN LinksOfAll ELSE links
  /\ pending' = IF stage = "all" /\ ~dryRun THEN pending ELSE "return"
  /\ pc' = IF stage = "all" /\ ~dryRun THEN "fetch" ELSE "finally"
  /\ UNCHANGED <<configVars, waitVars, pathVars, buildVars, extractVars, crawlVars, dirVars,
                 browser, data, li, thrown, exitCode>>

\* Mutant: a rejected fs.writeJson is logged and the stage goes on.
SaveLinksThrowsIgnored ==
  /\ pc = "save"
  /\ events' = events \o <<Ev("save", "links.json"), Ev("rejected", "save")>>
  /\ links' = IF stage = "all" /\ ~dryRun THEN LinksOfAll ELSE links
  /\ pending' = IF stage = "all" /\ ~dryRun THEN pending ELSE "return"
  /\ pc' = IF stage = "all" /\ ~dryRun THEN "fetch" ELSE "finally"
  /\ UNCHANGED <<configVars, waitVars, pathVars, buildVars, extractVars, crawlVars, dirVars, linksFile,
                 browser, data, li, thrown, exitCode>>

\* fs.writeJson rejects.
SaveLinksThrows ==
  /\ pc = "save"
  /\ events' = events \o <<Ev("save", "links.json"), Ev("rejected", "save")>>
  /\ pending' = "throw"
  /\ thrown' = "writeJson failed"
  /\ pc' = "finally"
  /\ UNCHANGED <<configVars, waitVars, pathVars, buildVars, extractVars, crawlVars, dirVars, linksFile,
                 browser, data, links, li, exitCode>>

\* ------------------------------------------------------------- scrapePage

\* Mutant: a URL counts as visited only once its page was saved or skipped.
AlreadyVisitedUnlessFailed(url) ==
  url \in visitedUrls /\ \A k \in 1..Len(failedUrls) : failedUrls[k].url # url

\* if (this.visitedUrls.has(url)) return
AlreadyVisited(url) == url \in visitedUrls

\* Mutant: an existing file is fetched again.
SkipExistingNever(path) == FALSE

\* if (this.incremental) { if (await fs.pathExists(filePath)) ... }
SkipExisting(path) == incremental /\ path \in DOMAIN files

\* Mutant: the failure is logged, not recorded.
DropFailure(failed, url, title, message) == failed

\* this.failedUrls.push({ url, title, error: error.message })
RecordFailure(failed, url, title, message) ==
  Append(failed, [url |-> url, title |-> title, error |-> message])

PageContent(url) == [kind |-> "page", url |-> url]

\* fs.writeFile(path, content): the file is created or overwritten.
WriteFile(fmap, path, content) ==
  [q \in DOMAIN fmap \cup {path} |-> IF q = path THEN content ELSE fmap[q]]

\* The operations of scrapePage's try block, in order.
FetchSteps == <<"ensureDir", "goto", "content", "writeFile">>

\* The operations attempted when step number last is the last one reached.
FetchEvents(url, last) == [k \in 1..last |-> Ev(FetchSteps[k], url)]

\* Mutant: the delay follows every link, the last one too.
LoopAdvanceDelayAlways(evs) ==
  /\ events' = Append(evs, Ev("delay", "500ms"))
  /\ li' = li + 1
  /\ pc' = IF li < Len(links) THEN "fetch" ELSE "index"

\* The rest of one iteration of the fetch loop: the delay unless this was the
\* last link, i++, and the loop's exit to the summary and the index.
LoopAdvance(evs) ==
  /\ events' = IF li < Len(links) THEN Append(evs, Ev("delay", "500ms")) ELSE evs
  /\ li' = li + 1
  /\ pc' = IF li < Len(links) THEN "fetch" ELSE "index"

\* scrapePage on a URL that is already in visitedUrls: it returns at once.
ScrapePageVisited ==
  /\ pc = "fetch"
  /\ AlreadyVisited(links[li].url)
  /\ LoopAdvance(events)
  /\ UNCHANGED <<configVars, waitVars, pathVars, buildVars, extractVars, crawlVars, dirVars, linksFile,
                 browser, data, links, pending, thrown, exitCode>>

\* scrapePage in incremental mode on a URL whose file exists.
ScrapePageSkipped ==
  /\ pc = "fetch"
  /\ ~AlreadyVisited(links[li].url)
  /\ SkipExisting(urlToFilePath(links[li].url))
  /\ visitedUrls' = visitedUrls \cup {links[li].url}
  /\ skippedCount' = skippedCount + 1
  /\ LoopAdvance(Append(events, Ev("pathExists", links[li].url)))
  /\ UNCHANGED <<configVars, waitVars, pathVars, buildVars, extractVars, failedUrls, successCount, dirVars,
                 linksFile, browser, data, links, pending, thrown, exitCode>>

\* scrapePage fetches the page and writes the file.
ScrapePageSaved ==
  /\ pc = "fetch"
  /\ ~AlreadyVisited(links[li].url)
  /\ ~SkipExisting(urlToFilePath(links[li].url))
  /\ visitedUrls' = visitedUrls \cup {links[li].url}
  /\ dirExists' = TRUE
  /\ files' = WriteFile(files, urlToFilePath(links[li].url), PageContent(links[li].url))
  /\ successCount' = successCount + 1
  /\ LoopAdvance(events \o FetchEvents(links[li].url, Len(FetchSteps)))
  /\ UNCHANGED <<configVars, waitVars, pathVars, buildVars, extractVars, failedUrls, skippedCount,
                 linksFile, browser, data, links, pending, thrown, exitCode>>

\* The operations of FetchSteps that reject in the model; page.content
\* rejecting differs from page.goto rejecting only in the error message.
FetchFaults == {1, 2, 4}

\* One operation of scrapePage's try block rejects.  The catch records the
\* failure.
ScrapePageFails ==
  /\ pc = "fetch"
  /\ ~AlreadyVisited(links[li].url)
  /\ ~SkipExisting(urlToFilePath(links[li].url))
  /\ Len(failedUrls) < MaxFaults
  /\ visitedUrls' = visitedUrls \cup {links[li].url}
  /\ \E last \in FetchFaults :
       /\ dirExists' = (dirExists \/ last > 1)
       /\ failedUrls' = RecordFailure(failedUrls, links[li].url, links[li].title,
                                      FetchSteps[last])
       /\ LoopAdvance(events \o FetchEvents(links[li].url, last)
                        \o <<Ev("fetchRejected", links[li].url)>>)
  /\ UNCHANGED <<configVars, waitVars, pathVars, buildVars, extractVars, successCount, skippedCount, files,
                 linksFile, browser, data, links, pending, thrown, exitCode>>

\* ------------------------------------------------- index, finally, exit

\* What generateIndexHtml is called with: the loaded data, or stage all's tree.
IndexInput == IF stage = "all" THEN [form |-> "tree", tree |-> tree] ELSE data

\* Mutant: an index.html that is already there is kept.
GenerateIndexIfMissing ==
  /\ pc = "index"
  /\ dirExists' = TRUE
  /\ files' = IF IndexPath \in DOMAIN files THEN files
              ELSE WriteFile(files, IndexPath, IndexDoc(IndexInput))
  /\ events' = Append(events, Ev("writeIndex", "index.html"))
  /\ pending' = "return"
  /\ pc' = "finally"
  /\ UNCHANGED <<configVars, waitVars, pathVars, buildVars, extractVars, crawlVars, linksFile,
                 browser, data, links, li, thrown, exitCode>>

\* generateIndexHtml: ensureDir(outputDir) and writeFile(index.html); stage
\* index calls ensureDir itself first.
GenerateIndex ==
  /\ pc = "index"
  /\ dirExists' = TRUE
  /\ files' = WriteFile(files, IndexPath, IndexDoc(IndexInput))
  /\ events' = Append(events, Ev("writeIndex", "index.html"))
  /\ pending' = "return"
  /\ pc' = "finally"
  /\ UNCHANGED <<configVars, waitVars, pathVars, buildVars, extractVars, crawlVars, linksFile,
                 browser, data, links, li, thrown, exitCode>>

\* ensureDir or writeFile rejects while the index is generated.
GenerateIndexThrows ==
  /\ pc = "index"
  /\ \E created \in BOOLEAN : dirExists' = (dirExists \/ created)
  /\ events' = events \o <<Ev("writeIndex", "index.html"), Ev("rejected", "writeIndex")>>
  /\ pending' = "throw"
  /\ thrown' = "index write failed"
  /\ pc' = "finally"
  /\ UNCHANGED <<configVars, waitVars, pathVars, buildVars, extractVars, crawlVars, files, linksFile,
                 browser, data, links, li, exitCode>>

\* Mutant: a run with failed pages exits with 1 as well.
FinallyCountingFailures ==
  /\ pc = "finally"
  /\ browser' = IF browser = "open" THEN "closed" ELSE browser
  /\ events' = IF browser = "open" THEN Append(events, Ev("close", "browser")) ELSE events
  /\ exitCode' = IF pending = "throw" \/ failedUrls # <<>> THEN 1 ELSE 0
  /\ pc' = "done"
  /\ UNCHANGED <<configVars, waitVars, pathVars, buildVars, extractVars, crawlVars, dirVars, linksFile,
                 data, links, li, pending, thrown>>

\* Mutant: close() is called at the end of the try block, not in finally.
FinallyClosingOnSuccess ==
  /\ pc = "finally"
  /\ browser' = IF browser = "open" /\ pending # "throw" THEN "closed" ELSE browser
  /\ events' = IF browser = "open" /\ pending # "throw"
                THEN Append(events, Ev("close", "browser")) ELSE events
  /\ exitCode' = IF pending = "throw" THEN 1 ELSE 0
  /\ pc' = "done"
  /\ UNCHANGED <<configVars, waitVars, pathVars, buildVars, extractVars, crawlVars, dirVars, linksFile,
                 data, links, li, pending, thrown>>

\* The finally blocks call close(); main exits with 1 when scrapeAll threw.
Finally ==
  /\ pc = "finally"
  /\ browser' = IF browser = "open" THEN "closed" ELSE browser
  /\ events' = IF browser = "open" THEN Append(events, Ev("close", "browser")) ELSE events
  /\ exitCode' = IF pending = "throw" THEN 1 ELSE 0
  /\ pc' = "done"
  /\ UNCHANGED <<configVars, waitVars, pathVars, buildVars, extractVars, crawlVars, dirVars, linksFile,
                 data, links, li, pending, thrown>>

\* process.exit inside parseArgs: 0 after --help, 1 after a value that is no
\* stage.  No scraper was constructed.
ProcessExit ==
  /\ pc = "exit"
  /\ exitCode' = IF stage = "help" THEN 0 ELSE 1
  /\ pc' = "done"
  /\ UNCHANGED <<configVars, waitVars, pathVars, buildVars, extractVars, crawlVars, dirVars, linksFile,
                 browser, data, links, li, pending, thrown, events>>

Next ==
  \/ ProcessExit
  \/ ScrapeLoadThrows
  \/ ScrapeLoad
  \/ IndexLoadThrows
  \/ IndexLoad
  \/ KeepOutputDir
  \/ EmptyOutputDir
  \/ EmptyOutputDirThrows
  \/ InitBrowser
  \/ InitThrows
  \/ GotoRoot
  \/ GotoRootThrows
  \/ EvaluateRoot
  \/ SaveLinks
  \/ SaveLinksThrows
  \/ ScrapePageVisited
  \/ ScrapePageSkipped
  \/ ScrapePageSaved
  \/ ScrapePageFails
  \/ GenerateIndex
  \/ GenerateIndexThrows
  \/ Finally

Spec == Init /\ [][Next]_vars

\* ------------------------------------------- claims about one invocation

\* The positions in events of the operations named op.
Calls(op) == {k \in 1..Len(events) : events[k].op = op}

Called(op) == Calls(op) # {}

\* The operations scrapePage performs to fetch a page.
FetchOps == Range(FetchSteps)

FetchCalls == {k \in 1..Len(events) : events[k].op \in FetchOps}

UrlPositions(t) == {q \in Paths(t) : NodeAt(t, q).url # NoUrl}

\* C4: in every links.json that saveLinks wrote, total is the number of nodes of
\* the stored tree that carry a URL and the length of the stored links list.
C4_TotalMatchesTreeAndLinks ==
  (linksFile.kind = "json" /\ linksFile.hasTree) =>
    /\ linksFile.total = Cardinality(UrlPositions(linksFile.tree))
    /\ linksFile.total = Len(linksFile.links)

\* This invocation saved a tree of two roots with a folder row and a link
\* below the second root.
C4_Witness ==
  /\ linksFile.kind = "json"
  /\ linksFile.extractedAt = "now"
  /\ Len(startUrl) = 2
  /\ linksFile.total = 3
  /\ \E q \in Paths(linksFile.tree) : q # <<>> /\ NodeAt(linksFile.tree, q).url = NoUrl

\* C6, per link: in incremental mode scrapePage on a URL not yet visited whose
\* file exists adds one to skippedCount, navigates nowhere and changes no
\* file; when the file does not exist the page is fetched, and either
\* successCount grows by one and the file holds the page, or one failure is
\* recorded.
C6_PerLink ==
  (pc = "fetch" /\ incremental /\ links[li].url \notin visitedUrls) =>
    LET url  == links[li].url
        path == urlToFilePath(url)
        new  == {events'[k] : k \in (Len(events) + 1)..Len(events')}
    IN  IF path \in DOMAIN files
        THEN /\ skippedCount' = skippedCount + 1
             /\ successCount' = successCount
             /\ failedUrls' = failedUrls
             /\ files' = files
             /\ \A e \in new : e.op \notin FetchOps
        ELSE /\ skippedCount' = skippedCount
             /\ \E e \in new : e.op \in FetchOps /\ e.arg = url
             /\ \/ /\ successCount' = successCount + 1
                   /\ failedUrls' = failedUrls
                   /\ Ev("goto", url) \in new
                   /\ path \in DOMAIN files'
                   /\ files'[path] = PageContent(url)
                \/ /\ successCount' = successCount
                   /\ Len(failedUrls') = Len(failedUrls) + 1

\* The file of url was in outputDir before an incremental run wrote anything:
\* such a run overwrites no page file, so the file still has its old content.
PresentBefore(url) ==
  /\ urlToFilePath(url) \in DOMAIN files
  /\ files[urlToFilePath(url)].kind = "old"

\* The file of url was not there before: it is missing, or this run wrote it.
AbsentBefore(url) ==
  \/ urlToFilePath(url) \notin DOMAIN files
  \/ files[urlToFilePath(url)].kind = "page"

\* An incremental scrape has run its fetch loop over two links u1, u2 and
\* ended; u1's file was there, u2's was not, and no fetch threw.
C6_TwoLinksCase ==
  /\ pc = "done"
  /\ stage = "scrape"
  /\ incremental
  /\ ~dryRun
  /\ Len(links) = 2
  /\ li > Len(links)
  /\ links[1].url # links[2].url
  /\ PresentBefore(links[1].url)
  /\ AbsentBefore(links[2].url)
  /\ failedUrls = <<>>

\* C6: the per-link rule above, and an incremental scrape over [u1, u2] with
\* only u1's file present and no fetch throwing ends with skippedCount = 1 and
\* successCount = 1.
C6_IncrementalSkip ==
  /\ [][C6_PerLink]_vars
  /\ [](C6_TwoLinksCase => (skippedCount = 1 /\ successCount = 1))

C6_Witness ==
  /\ C6_TwoLinksCase
  /\ skippedCount = 1
  /\ successCount = 1
  /\ Cardinality({k \in 1..Len(events) : events[k].op = "goto"}) = 1

\* A scrape or index stage that finds no links.json.
NoCheckpoint == stage \in {"scrape", "index"} /\ linksFile.kind = "absent"

\* C7: scrape or index without links.json: loadLinks is called once, its error
\* (run the extract stage first) leaves the try block and the process exits
\* with 1; up to then no browser is launched and outputDir is neither created
\* nor emptied nor written to.
C7_MissingCheckpointFailsFast ==
  /\ [](NoCheckpoint =>
          /\ pc \in {"load", "finally", "done"}
          /\ browser = "null"
          /\ pc = "load" => events = <<>>
          /\ pc # "load" =>
               /\ events = <<Ev("load", "links.json"), Ev("rejected", "load")>>
               /\ pending = "throw"
               /\ thrown = RunExtractFirst
          /\ pc = "done" => exitCode = 1)
  /\ [][NoCheckpoint => (dirExists' = dirExists /\ files' = files)]_vars

\* A scrape without links.json has exited; outputDir still does not exist.
C7_Witness ==
  /\ NoCheckpoint
  /\ stage = "scrape"
  /\ ~dryRun
  /\ ~incremental
  /\ pc = "done"
  /\ exitCode = 1
  /\ ~dirExists

IsFetchRejection(e) == e.op = "fetchRejected"

\* The fetches that threw, in order.
FetchRejections == SelectSeq(events, IsFetchRejection)

\* The first position of url in links.
FirstLink(url) ==
  CHOOSE j \in 1..Len(links) :
    links[j].url = url /\ \A i \in 1..(j - 1) : links[i].url # url

\* C8: failedUrls holds one entry per fetch that threw, in order, with the
\* link's URL and title and a non-empty message; a throwing fetch does not leave
\* the loop: every iteration goes on to the next link, and once the loop is
\* over every link's URL was processed.
C8_FailuresRecorded ==
  /\ Len(failedUrls) = Len(FetchRejections)
  /\ \A k \in 1..Len(failedUrls) :
       /\ failedUrls[k].url = FetchRejections[k].arg
       /\ failedUrls[k].title = links[FirstLink(failedUrls[k].url)].title
       /\ failedUrls[k].error \in FetchOps
  /\ pc = "fetch" =>
       /\ li <= Len(links)
       /\ visitedUrls = {links[k].url : k \in 1..(li - 1)}
       /\ pending = "none"
  /\ (pc # "fetch" /\ li > 1) =>
       /\ li = Len(links) + 1
       /\ visitedUrls = {links[k].url : k \in 1..Len(links)}

\* The first of at least three links threw, a later one was saved, and the run
\* went on to the end.
C8_Witness ==
  /\ pc = "done"
  /\ Len(links) >= 3
  /\ Len(failedUrls) = 2
  /\ failedUrls[1].url = links[1].url
  /\ successCount >= 1
  /\ li = Len(links) + 1

\* The times scrapePage performed op for url.
Times(op, url) == Cardinality({k \in 1..Len(events) : events[k] = Ev(op, url)})

\* C9, per link: scrapePage on a URL in visitedUrls changes no counter, not
\* failedUrls, not visitedUrls and no file, and performs no operation.
C9_PerLink ==
  (pc = "fetch" /\ links[li].url \in visitedUrls) =>
    /\ visitedUrls' = visitedUrls
    /\ failedUrls' = failedUrls
    /\ successCount' = successCount
    /\ skippedCount' = skippedCount
    /\ files' = files
    /\ dirExists' = dirExists
    /\ \A k \in (Len(events) + 1)..Len(events') : events'[k].op = "delay"

\* C9: in one run scrapePage navigates to each URL at most once and writes its
\* file at most once, also after a failed attempt; a visited URL is a no-op.
C9_NoUrlTwice ==
  /\ [][C9_PerLink]_vars
  /\ [](\A k \in 1..Len(links) : \A op \in FetchOps : Times(op, links[k].url) <= 1)

\* A URL whose fetch failed came up again in the list and the loop moved on.
C9_Witness ==
  \E j \in 1..Len(links) : \E k \in (j + 1)..(li - 1) :
    /\ links[j].url = links[k].url
    /\ \E f \in 1..Len(failedUrls) : failedUrls[f].url = links[k].url
    /\ Times("goto", links[k].url) = 1

\* Every fetch operation comes after every emptyDir and before every writeIndex;
\* in a scrape stage emptyDir comes after the load.
ClearFetchIndexOrder ==
  /\ \A c \in Calls("emptyDir") : \A f \in FetchCalls : c < f
  /\ \A x \in Calls("writeIndex") : \A f \in FetchCalls : f < x
  /\ stage = "scrape" => \A c \in Calls("emptyDir") : \E l \in Calls("load") : l < c
  /\ (stage = "scrape" /\ pc \in {"finally", "done"} /\ li > 1) => Called("writeIndex")

\* C10 as claimed: a non-dry-run scrape that loaded links.json calls emptyDir
\* if and only if incremental is not set.
C10_AsClaimed ==
  /\ (stage = "scrape" /\ ~dryRun /\ data.form # "none" /\ pc \in {"finally", "done"}) =>
       (Called("emptyDir") <=> ~incremental)
  /\ ClearFetchIndexOrder
  /\ incremental => ~Called("emptyDir")

\* C10, amended: a non-dry-run scrape calls emptyDir if and only if incremental
\* is not set and links.json loaded with a non-empty list of links; emptyDir
\* comes after the load and before the first fetch, the index is written after
\* the last fetch, and with incremental set no stage calls emptyDir.
C10_ClearOnlyWithLinks ==
  /\ (stage = "scrape" /\ ~dryRun /\ pc \in {"finally", "done"}) =>
       (Called("emptyDir") <=> (~incremental /\ data.form # "none" /\ Len(links) > 0))
  /\ ClearFetchIndexOrder
  /\ incremental => ~Called("emptyDir")

\* A full scrape emptied outputDir, fetched a page and wrote the index.
C10_Witness ==
  /\ stage = "scrape"
  /\ pc = "done"
  /\ ~incremental
  /\ Called("emptyDir")
  /\ successCount >= 1
  /\ Called("writeIndex")
  /\ exitCode = 0

\* The operations that change outputDir.
DirOps == FetchOps \cup {"emptyDir", "writeIndex"}

\* C11: with dryRun set no stage fetches a link, writes a page file or the
\* index, or empties or creates outputDir: outputDir stays as it was; links.json
\* is the only file written, and only by the stages extract and all.
C11_DryRunFrame ==
  /\ [][dryRun =>
          /\ dirExists' = dirExists
          /\ files' = files
          /\ linksFile' # linksFile =>
               (stage \in {"extract", "all"} /\ linksFile' = saveLinks(tree, startUrl))]_vars
  /\ [](dryRun =>
          /\ \A k \in 1..Len(events) : events[k].op \notin DirOps
          /\ successCount = 0 /\ skippedCount = 0 /\ failedUrls = <<>>
          /\ stage \in {"scrape", "index"} => ~Called("save"))

\* A dry run of stage all saved links.json, listed the links and ended with
\* outputDir still missing.
C11_Witness ==
  /\ dryRun
  /\ stage = "all"
  /\ ~incremental
  /\ pc = "done"
  /\ exitCode = 0
  /\ Called("save")
  /\ Len(allLinks) >= 2
  /\ ~dirExists

\* C12: stage index launches no browser and navigates nowhere: it loads
\* links.json and, unless it is a dry run, writes the index.
C12_IndexStageOffline ==
  stage = "index" =>
    /\ browser = "null"
    /\ \A k \in 1..Len(events) : events[k].op \in {"load", "writeIndex", "rejected"}
    /\ Len(events) > 0 => events[1] = Ev("load", "links.json")
    /\ (pc = "done" /\ exitCode = 0 /\ ~dryRun) =>
         /\ Called("writeIndex")
         /\ files[IndexPath] = IndexDoc(data)

\* Stage index has loaded a tree with links and written the index.
C12_Witness ==
  /\ stage = "index"
  /\ ~dryRun
  /\ pc = "done"
  /\ exitCode = 0
  /\ data.form = "tree"
  /\ files[IndexPath].kind = "index"
  /\ files[IndexPath].count >= 2

IsEnsureDir(e) == e.op = "ensureDir"

\* The URLs scrapePage started to fetch, in order.
AttemptedUrls ==
  LET s == SelectSeq(events, IsEnsureDir) IN [k \in 1..Len(s) |-> s[k].arg]

\* The elements of list in the order of their first occurrence.
RECURSIVE FirstOccurrences(_)
FirstOccurrences(list) ==
  IF list = <<>> THEN <<>>
  ELSE LET r == FirstOccurrences(SubSeq(list, 1, Len(list) - 1))
           x == list[Len(list)]
       IN  IF x \in Range(r) THEN r ELSE Append(r, x)

\* What stage scrape has in hand after loading the links.json that is on disk.
LoadedCheckpoint == loadLinks(linksFile)

\* Stage all and stage scrape (the latter from a links.json with a tree, as
\* stage extract writes it) are at the same point of the same run: the fetch
\* loop runs over the flattened tree of links.json, the index is built from that
\* tree, and the loop started with a fresh instance, a launched browser and,
\* in a full run, an emptied outputDir.
SameFetchPhase ==
  (stage \in {"all", "scrape"} /\ pc \in {"fetch", "index"}
     /\ linksFile.kind = "json" /\ linksFile.hasTree) =>
    /\ links = LinksOfData(LoadedCheckpoint)
    /\ IndexInput = LoadedCheckpoint
    /\ browser = "open"
    /\ ~dryRun
    /\ (pc = "fetch" /\ li = 1) =>
         /\ visitedUrls = {} /\ failedUrls = <<>>
         /\ successCount = 0 /\ skippedCount = 0
         /\ ~incremental => (dirExists /\ files = <<>>)
    /\ ~incremental =>
         AttemptedUrls = FirstOccurrences([k \in 1..(li - 1) |-> links[k].url])

\* emptyDir was called and did not reject.
Cleared == Called("emptyDir") /\ Ev("rejected", "emptyDir") \notin Range(events)

\* saveLinks was called and did not reject.
Saved == Called("save") /\ Ev("rejected", "save") \notin Range(events)

\* Stage extract and stage all write the same links.json for the same tree, a
\* later load returns that tree, and a links.json that extract wrote for one
\* root is among those a scrape starts from.
SameCheckpoint ==
  (stage \in {"extract", "all"} /\ Saved) =>
    /\ linksFile = saveLinks(tree, startUrl)
    /\ LoadedCheckpoint = [form |-> "tree", tree |-> tree]
    /\ LinksOfData(LoadedCheckpoint) = allLinks
    /\ Len(startUrl) = 1 => OldFile(tree, startUrl) \in StoredFiles

\* Before the fetch loop outputDir changes by emptyDir alone, and stage extract
\* never changes it.
DirBeforeFetch ==
  /\ stage = "extract" => UNCHANGED dirVars
  /\ (pc \notin {"fetch", "index"} /\ ~(pc = "clear" /\ ShouldClear)) => UNCHANGED dirVars

\* C13 as claimed: stage all does to links.json and outputDir what extract
\* followed by scrape does.  Extract followed by scrape leaves outputDir alone
\* when it ends with no links.json on disk, so stage all would have to as well.
C13_AsClaimed ==
  /\ SameFetchPhase
  /\ SameCheckpoint
  /\ (stage = "all" /\ pc = "done" /\ linksFile.kind = "absent") => ~Cleared

\* C13, amended: once extraction has succeeded and links.json is written,
\* stage all continues exactly as stage scrape does from that links.json: same
\* checkpoint, same links in the same order, same index input, same outputDir
\* at the start of the loop.  Before that point stage all, in a full run, has
\* already emptied outputDir, which extract never does.
C13_ComposesAfterExtraction ==
  /\ [](SameFetchPhase /\ SameCheckpoint)
  /\ [][DirBeforeFetch]_vars
  /\ []((stage = "all" /\ ShouldClear /\ pc \notin {"clear"}) =>
          events[1].op = "emptyDir")

\* Stage all extracted a tree for one root, saved it, fetched its links and
\* wrote the index.
C13_Witness ==
  /\ stage = "all"
  /\ ~dryRun
  /\ ~incremental
  /\ pc = "done"
  /\ exitCode = 0
  /\ Len(links) >= 2
  /\ successCount >= 1
  /\ OldFile(tree, startUrl) \in StoredFiles
  /\ files[IndexPath] = IndexDoc(LoadedCheckpoint)

\* C14: when stage extract ends without error, links.json is what saveLinks
\* made of this run alone: the tree extractLinks returned, its flattened links,
\* their number, this run's start URLs and time; nothing of the file that was
\* there before is left.
C14_ExtractOverwrites ==
  (stage = "extract" /\ pc = "done" /\ exitCode = 0) =>
    /\ Saved
    /\ linksFile.kind = "json"
    /\ linksFile.extractedAt = "now"
    /\ linksFile.startUrl = startUrl
    /\ linksFile.hasTree /\ linksFile.tree = tree
    /\ linksFile.hasLinks /\ linksFile.links = flattenTree(tree)
    /\ linksFile.total = Len(flattenTree(tree))
    /\ DOMAIN linksFile = DOMAIN saveLinks(tree, startUrl)
    /\ tree = ComposeTrees(allTrees)
    /\ Len(allTrees) = Len(startUrl)

\* Stage extract ended without error after extracting a tree of several links
\* that does not hold the link of the links.json of earlier revisions.
C14_Witness ==
  /\ stage = "extract"
  /\ pc = "done"
  /\ exitCode = 0
  /\ linksFile.extractedAt = "now"
  /\ linksFile.total >= 2
  /\ \A k \in 1..Len(linksFile.links) : linksFile.links[k].url # UrlA

\* A non-dry-run invocation of stage scrape, index or all has ended without
\* error.
EndedWell == stage \in {"scrape", "index", "all"} /\ ~dryRun /\ pc = "done" /\ exitCode = 0

\* index.html is the document generateIndexHtml makes in this invocation; it
\* was written as the last operation before the browser is closed.
IndexRegenerated ==
  /\ Called("writeIndex")
  /\ IndexPath \in DOMAIN files
  /\ files[IndexPath] = IndexDoc(IndexInput)
  /\ \A x \in Calls("writeIndex") : \A k \in (x + 1)..Len(events) : events[k].op = "close"

\* scrapeStage returned at "the list of links is empty".
ScrapedNothing == stage = "scrape" /\ data.form # "none" /\ Len(links) = 0

\* C15 as claimed: every non-dry-run scrape, index or all that ends without
\* error has written index.html anew.
C15_AsClaimed == EndedWell => IndexRegenerated

\* C15, amended: every non-dry-run index or all, and every non-dry-run scrape
\* whose links.json holds at least one link, that ends without error has written
\* index.html anew; a scrape of an empty list of links ends without error and
\* without writing it.
C15_IndexRegenerated ==
  /\ (EndedWell /\ ~ScrapedNothing) => IndexRegenerated
  /\ ScrapedNothing => (~Called("writeIndex") /\ pc \in {"finally", "done"})
  /\ (ScrapedNothing /\ pc = "done") => exitCode = 0

\* An incremental scrape kept an old page file and replaced the old index.html.
C15_Witness ==
  /\ EndedWell
  /\ stage = "scrape"
  /\ incremental
  /\ PresentBefore(UrlA)
  /\ files[IndexPath].kind = "index"
  /\ files[IndexPath].count >= 1

\* links.json holds a list of links and no tree.
LinksOnlyCheckpoint == linksFile.kind = "json" /\ ~linksFile.hasTree /\ linksFile.hasLinks

\* C16: a scrape of a links.json with a list of links and no tree loads it
\* without error and runs scrapePage over exactly the stored links in the
\* stored order; the fetch loop ends only after the last of them.
C16_LegacyListScraped ==
  (stage = "scrape" /\ LinksOnlyCheckpoint /\ pc # "load") =>
    /\ Ev("rejected", "load") \notin Range(events)
    /\ data = [form |-> "links", links |-> linksFile.links]
    /\ links = linksFile.links
    /\ pc = "fetch" => li \in 1..Len(links)
    /\ pc = "index" => li = Len(links) + 1
    /\ visitedUrls = {links[k].url : k \in 1..(IF pc = "fetch" THEN li - 1 ELSE
                                              IF li > 1 THEN Len(links) ELSE 0)}
    /\ ~incremental =>
         AttemptedUrls = FirstOccurrences([k \in 1..(li - 1) |-> links[k].url])

\* A scrape of a stored list of three links went through all three.
C16_Witness ==
  /\ stage = "scrape"
  /\ LinksOnlyCheckpoint
  /\ ~dryRun
  /\ pc = "done"
  /\ exitCode = 0
  /\ Len(linksFile.links) = 3
  /\ li = 4
  /\ successCount = 2

\* The link entries of the index.html this invocation wrote.
IndexLinks == SelectSeq(files[IndexPath].list, LAMBDA e : e.kind = "tree-item")

\* index.html was written by this invocation.
IndexWritten ==
  /\ Called("writeIndex")
  /\ Ev("rejected", "writeIndex") \notin Range(events)
  /\ IndexPath \in DOMAIN files
  /\ files[IndexPath].kind = "index"

\* C17 as claimed: the index.html that stage index or scrape generates from a
\* links.json with a list of links and no tree has one link entry per stored
\* link, in order, and gives their number as the page count.
C17_LegacyIndexListsLinks ==
  (stage \in {"index", "scrape"} /\ LinksOnlyCheckpoint /\ IndexWritten) =>
    /\ files[IndexPath].count = Len(linksFile.links)
    /\ Len(IndexLinks) = Len(linksFile.links)
    /\ \A k \in 1..Len(IndexLinks) :
         IndexLinks[k].href = urlToFilePath(linksFile.links[k].url)

\* The nodes of a tree that have neither a url nor a child.
EmptyFolders(t) ==
  {q \in Paths(t) : NodeAt(t, q).url = NoUrl /\ Len(NodeAt(t, q).children) = 0}

\* C18 as claimed: the tree extractLinks returns, which is the tree that is
\* counted, flattened for fetching and stored in links.json, has no node
\* without url and without children.
C18_NoEmptyFolder ==
  xpc \in {"flatten", "done"} => EmptyFolders(tree) = {}

\* page.goto rejected for a root URL during extractLinks.
RootNavigationFailed ==
  stage \in {"extract", "all"} /\ Ev("rejected", "gotoRoot") \in Range(events)

\* C19 as claimed: when page.goto rejects for a root URL, extractLinks goes on
\* to scan the document, and the stage neither throws nor exits with 1 because
\* of it.
C19_RootNavigationRecovered ==
  RootNavigationFailed =>
    /\ pending # "throw"
    /\ thrown # "navigation failed"
    /\ pc \notin {"finally", "done"} \/ Len(allTrees) = Len(startUrl)
    /\ pc = "done" => exitCode = 0

\* fs.writeJson rejected in saveLinks.
SaveFailed == Ev("rejected", "save") \in Range(events)

\* C20: when saveLinks rejects, the error leaves the stage's try block and
\* scrapeAll, the process exits with 1, and nothing but closing the browser
\* follows: no page is fetched, no file is written, no index is built.
C20_SaveFailureIsFatal ==
  SaveFailed =>
    /\ pending = "throw"
    /\ thrown = "writeJson failed"
    /\ pc \in {"finally", "done"}
    /\ pc = "done" => (exitCode = 1 /\ browser = "closed")
    /\ FetchCalls = {}
    /\ ~Called("writeIndex")
    /\ successCount = 0 /\ skippedCount = 0 /\ failedUrls = <<>>
    /\ \A s \in Calls("save") : \A k \in (s + 2)..Len(events) : events[k].op = "close"

\* Stage all, not a dry run, has exited with 1 after saveLinks rejected.
C20_Witness ==
  /\ SaveFailed
  /\ stage = "all"
  /\ ~dryRun
  /\ Len(allLinks) >= 2
  /\ pc = "done"
  /\ exitCode = 1
  /\ browser = "closed"

\* The value given after --stage is no stage, or there is none.
InvalidStage == stage \notin {"extract", "scrape", "index", "all", "help"}

\* An error reached the top level: parseArgs refused the stage, or an awaited
\* operation outside scrapePage's try block rejected.
FatalError == InvalidStage \/ Called("rejected")

\* C21: the process ends with status 1 exactly when a fatal error occurred,
\* and with 0 otherwise, however many page fetches failed.
C21_ExitStatus ==
  /\ pc # "done" => exitCode = -1
  /\ pc = "done" =>
       /\ exitCode \in {0, 1}
       /\ exitCode = 1 <=> FatalError

\* Every fetch of a run failed and the process still ended with status 0.
C21_Witness ==
  /\ pc = "done"
  /\ exitCode = 0
  /\ Len(links) >= 2
  /\ Len(failedUrls) = 2
  /\ successCount = 0
  /\ skippedCount = 0

\* C22: a value after --stage that is no stage, or none, ends the process
\* with status 1 inside parseArgs: no scraper runs, no browser is launched,
\* links.json and outputDir are not touched.
C22_InvalidStageFatal ==
  /\ [](InvalidStage =>
          /\ pc \in {"exit", "done"}
          /\ events = <<>>
          /\ browser = "null"
          /\ pc = "done" => exitCode = 1)
  /\ [][InvalidStage => UNCHANGED <<dirExists, files, linksFile>>]_vars

\* --stage without a value: the process has ended with 1 and the files in
\* outputDir are still there.
C22_Witness ==
  /\ stage = "undefined"
  /\ pc = "done"
  /\ exitCode = 1
  /\ DOMAIN files # {}
  /\ linksFile.kind = "json"

Delays == Cardinality(Calls("delay"))

\* One iteration of the fetch loop: unless the link was the last one, the
\* delay is the one operation added after the link's own, and it is the 500 ms
\* one; after the last link there is none.
C24_PerLink ==
  pc = "fetch" =>
    LET new == SubSeq(events', Len(events) + 1, Len(events'))
        own == {k \in 1..Len(new) : new[k].op = "delay"}
    IN  /\ li' = li + 1
        /\ IF li < Len(links)
           THEN own = {Len(new)} /\ new[Len(new)] = Ev("delay", "500ms")
           ELSE own = {}

\* C24: a fetch loop over n links makes n - 1 delays, one after each link but
\* the last, whether the link was fetched, skipped, failed or already visited;
\* nothing outside the loop delays.
C24_PacingDelay ==
  /\ [][C24_PerLink]_vars
  /\ [](Delays = IF pc = "fetch" THEN li - 1
                 ELSE IF li > 1 THEN Len(links) - 1 ELSE 0)

\* A loop over three links, one of them a repeated URL, ended after two delays.
C24_Witness ==
  /\ pc = "done"
  /\ Len(links) = 3
  /\ li = 4
  /\ Delays = 2
  /\ Cardinality(visitedUrls) = 2
  /\ events[Len(events)].op # "delay"

\* The <li> generateTreeHtml makes for the node at position p of tree t: a link
\* to the page's file for a node with a url, a heading for one without, at the
\* depth of the node.
EntryOf(t, p) ==
  IF NodeAt(t, p).url # NoUrl
  THEN [kind |-> "tree-item", href |-> urlToFilePath(NodeAt(t, p).url),
        title |-> NodeAt(t, p).title, level |-> Len(p)]
  ELSE [kind |-> "tree-folder", title |-> NodeAt(t, p).title, level |-> Len(p)]

\* The entries for the positions S of t, in document order.
EntriesOf(t, S) == [k \in 1..Len(InOrder(S)) |-> EntryOf(t, InOrder(S)[k])]

\* index.html was written by this invocation from a tree.
IndexOfTree == IndexWritten /\ IndexInput.form = "tree"

\* C25 as claimed: the list of index.html has one entry per node of the tree,
\* a link for a node with a url and a heading for one without, in pre-order,
\* at the node's depth.
C25_AsClaimed ==
  IndexOfTree =>
    files[IndexPath].list = EntriesOf(IndexInput.tree, Paths(IndexInput.tree))

\* C25, amended: as claimed, except that the top node of the tree gets no
\* heading when it has no url (the wrapper of several roots).
C25_IndexEntries ==
  IndexOfTree =>
    LET t == IndexInput.tree
    IN  /\ files[IndexPath].list =
             EntriesOf(t, {p \in Paths(t) : p # <<>> \/ t.url # NoUrl})
        /\ files[IndexPath].count = Cardinality({p \in Paths(t) : NodeAt(t, p).url # NoUrl})

\* The index of a two-root tree with a folder row above a linked row.
C25_Witness ==
  /\ IndexOfTree
  /\ IndexInput.tree.url = NoUrl
  /\ \E k \in 1..Len(files[IndexPath].list) :
       /\ files[IndexPath].list[k].kind = "tree-folder"
       /\ files[IndexPath].list[k].level = 2
       /\ k < Len(files[IndexPath].list)
       /\ files[IndexPath].list[k + 1].kind = "tree-item"
       /\ files[IndexPath].list[k + 1].level = 3

\* ---------------------------------------------------------------- C26
\* C26: the expand-all loop of waitForDirectoryTree terminates whatever the
\* rendered page does, and it ends on the first scan that clicked nothing.
\* Stated as the claim has it; the page that keeps a closed switcher after
\* every round of clicks refutes the first half.
ExpandLoopOver == wpc \in {"done", "thrown"}

C26_ExpandTerminates ==
  /\ (wpc = "expand") ~> ExpandLoopOver
  /\ [][(wpc = "expand" /\ expandedCount' = 0) => wpc' = "done"]_vars

\* ---------------------------------------------------------------- C27
\* C27: when the tree container never appears, detection makes at most
\* maxAttempts polls of the primary selector, then waits once for each
\* fallback selector in order, swallows every error of a poll or a wait, and
\* goes on to the rendering wait and the scan without raising.
Detecting == wpc \in {"poll", "fallback"}

C27_DetectionBudget ==
  /\ [](attempts + (IF loaded THEN 1 ELSE 0) <= maxAttempts)
  /\ [](wpc = "fallback" => ~loaded /\ attempts = maxAttempts)
  /\ [](tried = SubSeq(fallbackSelectors, 1, Len(tried)))
  /\ [](loaded => tried = <<>>)
  /\ [][Detecting => wpc' \in {"poll", "fallback", "settle"}]_vars
  /\ Detecting ~> (wpc = "settle")

C27_Witness ==
  /\ wpc = "expand"
  /\ ~loaded
  /\ ~found
  /\ attempts = maxAttempts
  /\ tried = fallbackSelectors
  /\ swallowed > 0

\* ---------------------------------------------------------------- C28
\* C28: urlToFilePath is a function of the URL alone; the path it returns
\* ends with .html and the extension step leaves it as it is (applied twice
\* it equals applied once); a URL whose path is empty or a lone slash maps
\* to index.html.
Returned == ppc = "returned"

PathOfUrlObj ==
  IF urlObj.valid
  THEN EnsureHtml(DefaultIndex(ReplaceIllegal(StripLeadingSlash(urlObj.pathname))))
  ELSE ErrorPath

AlreadyHtml == urlObj.valid /\ EndsWith(urlObj.pathname, HtmlExt) /\ Len(urlObj.pathname) > Len(HtmlExt) + 1

C28_PathIdempotent ==
  Returned =>
    /\ filePath = PathOfUrlObj
    /\ EndsWith(filePath, HtmlExt)
    /\ EnsureHtml(filePath) = filePath
    /\ AlreadyHtml => filePath = ReplaceIllegal(Tail(urlObj.pathname))
    /\ (urlObj.valid /\ urlObj.pathname \in {<<"/">>, <<"/", "/">>}) => filePath = IndexPath

C28_Witness ==
  /\ Returned
  /\ AlreadyHtml
  /\ filePath = <<"a", "_", ".", "h", "t", "m", "l">>

\* ---------------------------------------------------------------- C29
\* C29: after each record buildTree has processed, the levels on the stack
\* increase strictly from bottom to top, the top entry is the node just
\* inserted, the bottom entry is a root of the result and every other entry
\* is a child of the entry below it.
RecordProcessed == xpc = "forEach" /\ bi > 1

StackLevelsIncrease ==
  \A k \in 1..(Len(bt.stack) - 1) : bt.stack[k].level[1] < bt.stack[k + 1].level[1]

StackTopIsLatest ==
  /\ Len(bt.stack) > 0
  /\ bt.stack[Len(bt.stack)].node = Len(bt.heap)
  /\ Len(bt.heap) = bi - 1
  /\ bt.stack[Len(bt.stack)].level = LevelOf(flatNodes[bi - 1])

ChildrenOf(id) == Range(bt.heap[id].children)

StackIsAncestorChain ==
  /\ bt.stack[1].node \in Range(bt.result)
  /\ \A k \in 1..(Len(bt.stack) - 1) :
       /\ bt.stack[k + 1].node \in ChildrenOf(bt.stack[k].node)
       /\ bt.stack[k + 1].node = bt.heap[bt.stack[k].node].children[Len(bt.heap[bt.stack[k].node].children)]

C29_StackIsAncestorChain ==
  RecordProcessed => StackTopIsLatest /\ StackLevelsIncrease /\ StackIsAncestorChain

C29_Witness ==
  /\ RecordProcessed
  /\ Len(bt.heap) = 4
  /\ Len(bt.stack) = 2
  /\ bt.stack[1].node = 3
  /\ bt.stack[2].level = <<2>>

\* ---------------------------------------------------------------- C30
\* C30: after every scrapePage call that has returned, successCount +
\* skippedCount + failedUrls.length equals the size of visitedUrls, no URL
\* is recorded as failed twice, every failed URL is a visited one, and
\* neither a counter nor the visited set ever goes down.
FailedSet == {failedUrls[k].url : k \in 1..Len(failedUrls)}

Accounted ==
  /\ successCount + skippedCount + Len(failedUrls) = Cardinality(visitedUrls)
  /\ Cardinality(FailedSet) = Len(failedUrls)
  /\ FailedSet \subseteq visitedUrls

CountersGrow ==
  /\ successCount' >= successCount
  /\ skippedCount' >= skippedCount
  /\ Len(failedUrls') >= Len(failedUrls)
  /\ SubSeq(failedUrls', 1, Len(failedUrls)) = failedUrls
  /\ visitedUrls \subseteq visitedUrls'
  /\ successCount' + skippedCount' + Len(failedUrls')
       <= successCount + skippedCount + Len(failedUrls) + 1

C30_VisitedAccounted == []Accounted /\ [][CountersGrow]_vars

C30_Witness ==
  /\ pc = "done"
  /\ Len(failedUrls) >= 1
  /\ skippedCount >= 1
  /\ Cardinality(visitedUrls) = 3
  /\ Len(links) > 3

\* ---------------------------------------------------------------- C31
\* C31: an invocation that launched a browser has closed it when scrapeAll
\* is over, however it ended: normally, by the early return of a dry run,
\* or by an error after the launch.  An open browser is never forgotten
\* (this.browser is not reset) and close() comes after the launch.
Launched == browser # "null"

ScrapeAllOver == pc = "done"

C31_BrowserClosed ==
  /\ [](ScrapeAllOver /\ Launched =>
          /\ browser = "closed"
          /\ Called("launch") /\ Called("close")
          /\ \A k \in Calls("launch") : \A c \in Calls("close") : k < c)
  /\ [](Called("close") => Launched)
  /\ [][browser = "open" => browser' \in {"open", "closed"}]_vars
  /\ [][browser = "closed" => browser' = "closed"]_vars

C31_Witness ==
  /\ ScrapeAllOver
  /\ browser = "closed"
  /\ thrown = "init failed"
  /\ exitCode = 1

\* ---------------------------------------------------------------- C32
\* C32: the root node of every per-root tree carries that root's URL, with
\* or without a navigation tree in the document; so the root URL is the
\* first link of its tree's flattening and is in the list of the run, a
\* full run that ends well has handed it to scrapePage, and the total in
\* the checkpoint is the number of rows with a URL plus the number of roots.
RECURSIVE FlattenEach(_, _)
FlattenEach(trees, k) ==
  IF k > Len(trees) THEN <<>>
  ELSE flattenTree(trees[k]) \o FlattenEach(trees, k + 1)

RECURSIVE RowUrlsFrom(_, _)
\* The rows with a URL: the URL-bearing nodes below the roots.
RowUrlsFrom(trees, k) ==
  IF k > Len(trees) THEN 0
  ELSE countLinksFrom(trees[k].children, 1) + RowUrlsFrom(trees, k + 1)

ExtractionOver == stage \in {"extract", "all"} /\ Len(allTrees) = Len(startUrl)

NoTreeFound == \E k \in 1..Len(allTrees) : allTrees[k].children = <<>>

C32_RootCarriesUrl ==
  /\ \A k \in 1..Len(allTrees) :
       /\ allTrees[k].url = startUrl[k]
       /\ flattenTree(allTrees[k])[1].url = startUrl[k]
  /\ ExtractionOver =>
       /\ allLinks = FlattenEach(allTrees, 1)
       /\ allLinks[1].url = startUrl[1]
       /\ Range(startUrl) \subseteq {allLinks[k].url : k \in 1..Len(allLinks)}
  /\ (ExtractionOver /\ Saved) =>
       /\ linksFile.total = RowUrlsFrom(allTrees, 1) + Len(startUrl)
       /\ linksFile.links = allLinks
  /\ (ExtractionOver /\ stage = "all" /\ ~dryRun /\ pc = "done" /\ exitCode = 0) =>
       /\ Range(startUrl) \subseteq visitedUrls
       /\ \A k \in 1..Len(startUrl) : Times("ensureDir", startUrl[k]) + Times("pathExists", startUrl[k]) = 1

C32_Witness ==
  /\ ExtractionOver
  /\ stage = "all"
  /\ pc = "done"
  /\ exitCode = 0
  /\ ~dryRun
  /\ Len(startUrl) = 2
  /\ allTrees[1].children = <<>>
  /\ linksFile.total = 3
  /\ RootB \in visitedUrls

\* ---------------------------------------------------------------- C33
\* C33: a run of stage all that is neither a dry run nor incremental empties
\* the output directory before it launches the browser, opens a root page
\* or writes the checkpoint; when init, the extraction or the checkpoint
\* write then fails, the directory exists and is empty, no page was fetched
\* and no index was written, and the run exits with 1.
FullRun == stage = "all" /\ ~dryRun /\ ~incremental

LaunchFailed == Ev("rejected", "launch") \in Range(events)

ExtractionFailed == LaunchFailed \/ RootNavigationFailed \/ SaveFailed

AfterClearing == Calls("launch") \cup Calls("gotoRoot") \cup Calls("save")

C33_ClearedBeforeExtraction ==
  /\ []((FullRun /\ AfterClearing # {}) =>
          /\ Cleared
          /\ Times("emptyDir", "outputDir") = 1
          /\ \A c \in Calls("emptyDir") : \A k \in AfterClearing : c < k)
  /\ []((FullRun /\ ExtractionFailed) =>
          /\ dirExists
          /\ files = <<>>
          /\ ~Called("writeIndex")
          /\ \A op \in FetchOps : ~Called(op)
          /\ pc \in {"finally", "done"}
          /\ pc = "done" => exitCode = 1)
  /\ [][(FullRun /\ pc = "clear" /\ pc' = "init") => (files' = <<>> /\ dirExists')]_vars

C33_Witness ==
  /\ FullRun
  /\ pc = "done"
  /\ SaveFailed
  /\ Cleared
  /\ files = <<>>
  /\ Len(startUrl) = 2

====
